---- MODULE Spec2Model ----
(***************************************************************************)
(* Ayaka: the desktop front-end's command surface over the three guarded   *)
(* pieces of the Storage (context, records, action), the open_game stages, *)
(* the plugin runtime's load, the host-to-module calling convention and    *)
(* the packed 64-bit return value.                                         *)
(*                                                                         *)
(* Each subsystem has its own specification over its own group of          *)
(* variables; the other groups stay at their idle value.                   *)
(***************************************************************************)
EXTENDS Integers, Sequences, FiniteSets, TLC

\* ------------------------------------------------------------------ bounds
\* Number of front-end invocations in one behaviour of the command surface.
MaxCalls == 3
\* Largest index argument a front-end passes to save_record_to / start_record / switch.
MaxIndex == 1
\* Number of actions of the game being played (next_run returns None after them).
GameLen == 2
\* Longest explicit name list passed to Runtime::load.
MaxNames == 2

\* --------------------------------------------------------------- variables
VARIABLES
    \* Storage (main.rs:180-187) and the command tasks running on it
    context,    \* Mutex<Option<Context>>: [some, hist] (hist = length of record.history;
                \* calls = the switch programs evaluated on the record, counted to 1)
    records,    \* Mutex<Vec<ActionRecord>>: each record by the length of its history
    action,     \* Mutex<Option<Action>>: -1 = None, k = the action produced at position k
    lk,         \* the holder of each of the three mutexes (0 = free)
    vm_cmd,     \* the command each task runs ("idle" when none)
    vm_pc,      \* the task's position in the command body
    vm_arg,     \* the command's index argument
    vm_tmp,     \* the task's local (the Option<Action> a step computed)
    vm_ret,     \* what the last command of the task returned
    vm_calls,   \* invocations so far
    vm_hs,      \* the Vec<Action> the task's history command returned
    vm_io,      \* the saves the task's command has attempted, in order
    pl_cur,     \* the command the front-end awaits, with the storage as it was at the invoke
    pl_prev,    \* the command before it, with what it returned and the storage after it
    \* open_game (main.rs:67-117)
    og_pc,      \* the stage open_game is at
    og_events,  \* the statuses emitted on ayaka://open_status, in order
    og_ctx,     \* the engine Context::open returned, with what was set on it
    og_fail,    \* the loads (settings, global, records) that failed and were defaulted
    og_err,     \* what made open_game return an error ("none" when it has not)
    og_log,     \* the installs into the storage and the Loaded event, in order
    og_old,     \* the storage (context, records) as it was when open_game was called
    \* Runtime::load (plugin.rs:304-389)
    ld_names,   \* the name list passed to load
    ld_dir,     \* the plugin directory as read_dir enumerates it
    ld_ptype,   \* the PluginType each module file's plugin_type() returns
    ld_known,   \* the module files whose plugin_type() has been called
    ld_pc,      \* the position in load
    ld_paths,   \* paths: the (name, file) pairs to load
    ld_i,       \* the loop index
    ld_status,  \* the statuses the stream has yielded, in order
    ld_taken,   \* how many of them the consumer has taken
    ld_read,    \* the indices whose module file has been read, in order
    ld_err,     \* what made load fail ("none" when it has not)
    modules, action_modules, text_modules, line_modules, game_modules,
    \* host-to-module calls (plugin.rs:152-172, ayaka-plugin-wasmedge/src/lib.rs:66-110)
    cl_backend, \* the engine adapter behind the calls
    cl_store,   \* the holder of the store mutex (0 = free)
    cl_pc,      \* each call's position
    cl_alloc,   \* the buffers of the call that exist in the module: [arg, res]
    cl_freed,   \* how often each buffer was passed to __abi_free: [arg, res]
    cl_res,     \* the pending outcome of the export / of the call
    cl_ret,     \* how the call ended ("none" while it runs)
    cl_trace,   \* the steps of the call on the module, in order
    \* the packed 64-bit return value (plugin.rs:166-167, lib.rs:86-87, lib.rs:168)
    pk_path,    \* which crossing of the boundary: an export result or an import result
    pk_len,     \* the length that is packed, as the i32 with its bits
    pk_ptr,     \* the pointer that is packed, an i32
    pk_word,    \* the 64-bit value in flight, as <<high half, low half>>
    pk_out,     \* the pair the receiver unpacked
    pk_pc,      \* the position of the crossing
    \* the script interpreter (utils/ayaka-runtime/src/script.rs)
    sc_locals,  \* VarTable::locals: the record locals
    sc_vars,    \* VarTable::vars: the temp scope
    sc_out,     \* "ok", or "panic" once an evaluation has panicked
    sc_pick,    \* the operator expression drawn for evaluation (NoPick: none)
    sc_last,    \* the last evaluation: what was evaluated, on what, and what it did
    \* the locale resolver (utils/ayaka-runtime/src/config.rs:63-110)
    lc_game,    \* the Game: base_lang, paras and res by locale
    lc_loc,     \* the target locale
    lc_out,     \* the lookup that was made and the Fallback it returned
    \* a host import called by a module (plugin.rs:238-249, lib.rs:142-171)
    im_backend, \* the adapter the import is wrapped by
    im_arg,     \* the (len, data) of the call, whether the bytes decode, what the handler does
    im_pc,      \* the position in the import
    im_handled, \* how many times the native handler has been invoked
    im_log,     \* the reads, allocations and writes made in the module's memory
    im_ret      \* what the import returned to the module

vmVars == <<context, records, action, lk, vm_cmd, vm_pc, vm_arg, vm_tmp, vm_ret, vm_calls, vm_hs, vm_io>>
storageVars == <<context, records, action, lk>>
taskVars == <<vm_cmd, vm_pc, vm_arg, vm_tmp, vm_ret, vm_calls, vm_hs, vm_io>>
ogVars == <<og_pc, og_events, og_ctx, og_fail, og_err, og_log, og_old>>
ldInVars == <<ld_names, ld_dir>>
ldVars == <<ld_names, ld_dir, ld_ptype, ld_known, ld_pc, ld_paths, ld_i, ld_status,
            ld_taken, ld_read, ld_err, modules, action_modules, text_modules, line_modules,
            game_modules>>

clVars == <<cl_backend, cl_store, cl_pc, cl_alloc, cl_freed, cl_res, cl_ret, cl_trace>>

pkVars == <<pk_path, pk_len, pk_ptr, pk_word, pk_out, pk_pc>>

scVars == <<sc_locals, sc_vars, sc_out, sc_pick, sc_last>>

lcVars == <<lc_game, lc_loc, lc_out>>

plVars == <<pl_cur, pl_prev>>

imVars == <<im_backend, im_arg, im_pc, im_handled, im_log, im_ret>>

vars == <<vmVars, ogVars, ldVars, clVars, pkVars, scVars, lcVars, plVars, imVars>>

\* what the command surface leaves alone
notVM == <<ogVars, ldVars, clVars, pkVars, scVars, lcVars, plVars, imVars>>
\* what Runtime::load leaves alone
notLoad == <<vmVars, ogVars, clVars, pkVars, scVars, lcVars, plVars, imVars>>
\* what open_game leaves alone
notOpen == <<action, lk, taskVars, og_old, clVars, pkVars, scVars, lcVars, plVars, imVars>>
\* what a host-to-module call leaves alone
notCall == <<vmVars, ogVars, ldVars, pkVars, scVars, lcVars, plVars, imVars>>
\* what packing and unpacking leave alone
notPack == <<vmVars, ogVars, ldVars, clVars, scVars, lcVars, plVars, imVars>>
\* what the interpreter leaves alone
notScript == <<vmVars, ogVars, ldVars, clVars, pkVars, lcVars, plVars, imVars>>
\* what the locale resolver leaves alone
notLocale == <<vmVars, ogVars, ldVars, clVars, pkVars, scVars, plVars, imVars>>

\* what a host import leaves alone
notImport == <<vmVars, ogVars, ldVars, clVars, pkVars, scVars, lcVars, plVars>>

\* ======================================================================
\* The command surface (bins/ayaka-gui/src-tauri/src/main.rs)
\* ======================================================================
Procs == {1, 2}
Locks == {"context", "records", "action"}
NoAction == -1

Commands ==
    {"get_settings", "set_settings", "get_records", "save_record_to", "save_all",
     "info", "start_new", "start_record", "next_run", "next_back_run",
     "current_visited", "current_run", "switch", "history"}

\* Storage::default(): no engine, no records, no action; or the storage as a
\* successful open_game leaves it (engine installed with a fresh record, the
\* records read from disk).
NoContext == [some |-> FALSE, hist |-> 0, settings |-> "none", global |-> "none", calls |-> 0]

StorageInit ==
    /\ action = NoAction
    /\ \/ /\ context = NoContext
          /\ records = <<>>
       \/ /\ context = [some |-> TRUE, hist |-> 0, settings |-> "loaded", global |-> "loaded", calls |-> 0]
          /\ records \in {<<>>, <<1>>}

IdleTasks ==
    /\ lk = [l \in Locks |-> 0]
    /\ vm_cmd = [p \in Procs |-> "idle"]
    /\ vm_pc = [p \in Procs |-> "idle"]
    /\ vm_arg = [p \in Procs |-> 0]
    /\ vm_tmp = [p \in Procs |-> NoAction]
    /\ vm_ret = [p \in Procs |-> "none"]
    /\ vm_calls = 0
    /\ vm_hs = [p \in Procs |-> <<>>]
    /\ vm_io = [p \in Procs |-> <<>>]

\* ---- the engine's playback operations on the record
\* Context::next_run: the next action, appended to the history; None at the end.
CtxNextRun(ctx) ==
    IF ctx.hist < GameLen
    THEN [ctx |-> [ctx EXCEPT !.hist = @ + 1], res |-> ctx.hist + 1]
    ELSE [ctx |-> ctx, res |-> NoAction]

\* Context::next_back_run: pops the last history entry; None on an empty history.
CtxNextBackRun(ctx) ==
    IF ctx.hist > 0
    THEN [ctx |-> [ctx EXCEPT !.hist = @ - 1], res |-> ctx.hist]
    ELSE [ctx |-> ctx, res |-> NoAction]

\* Context::init_new / init_context: reset to the initial record / restore a record.
CtxInitNew(ctx) == [ctx EXCEPT !.hist = 0]
CtxInitContext(ctx, raw) == [ctx EXCEPT !.hist = raw]

\* record.history: the actions produced so far, oldest first
CtxHistory(ctx) == [k \in 1..ctx.hist |-> k]
\* Vec::reverse
Reverse(seq) == [k \in 1..Len(seq) |-> seq[Len(seq) + 1 - k]]

\* Context::call(&switch.action): the program of the switch runs on the record
CtxCall(ctx) == [ctx EXCEPT !.calls = 1]

\* Context::visited: the history holds an entry at the action's position.
CtxVisited(ctx, a) == a <= ctx.hist

\* the number of switches of the action at position a
NSwitches(a) == IF a = 1 THEN 1 ELSE 0

\* ---- locks
\* The lock the task's next step requests (lock().await), from the command body.
WaitsFor(p) ==
    LET c == vm_cmd[p]
        pc == vm_pc[p]
    IN  CASE c \in {"get_settings", "set_settings", "info", "start_new", "history"}
               /\ pc = "start" -> "context"
          [] c \in {"get_records"} /\ pc = "start" -> "records"
          [] c \in {"current_run"} /\ pc = "start" -> "action"
          [] c = "save_record_to" /\ pc = "start" -> "records"
          [] c = "save_record_to" /\ pc = "l146" -> "context"
          [] c = "save_all" /\ pc = "start" -> "context"
          [] c = "save_all" /\ pc = "l168" -> "records"
          [] c = "start_record" /\ pc = "start" -> "context"
          [] c = "start_record" /\ pc = "l245" -> "records"
          [] c = "start_record" /\ pc = "l247" -> "action"
          [] c = "next_run" /\ pc = "start" -> "context"
          [] c = "next_run" /\ pc = "l262" -> "action"
          [] c = "next_back_run" /\ pc = "start" -> "context"
          [] c = "next_back_run" /\ pc = "l277" -> "action"
          [] c = "current_visited" /\ pc = "start" -> "action"
          [] c = "current_visited" /\ pc = "l289" -> "context"
          [] c = "switch" /\ pc = "start" -> "context"
          [] c = "switch" /\ pc = "l312" -> "action"
          [] OTHER -> "none"

Held(p) == {l \in Locks : lk[l] = p}

\* The locks the command body has taken before the step the task is at
\* (main.rs:143-171, 238-283).
Took(p) ==
    LET c == vm_cmd[p]
        pc == vm_pc[p]
    IN  CASE c = "save_record_to" /\ pc = "l146" -> {"records"}
          [] c = "save_all" /\ pc \in {"l166", "l167", "l168"} -> {"context"}
          [] c = "start_record" /\ pc = "l245" -> {"context"}
          [] c = "start_record" /\ pc = "l247" -> {"context", "records"}
          [] c = "next_run" /\ pc = "l262" -> {"context"}
          [] c = "next_back_run" /\ pc = "l277" -> {"context"}
          [] OTHER -> {}

\* lock().await returns: the mutex is free and the task takes it
CanLock(p) == WaitsFor(p) \in Locks /\ lk[WaitsFor(p)] = 0
Locked(p) == [lk EXCEPT ![WaitsFor(p)] = p]
\* the guards the task holds are dropped
Released(p, l) == [lk EXCEPT ![l] = IF @ = p THEN 0 ELSE @]
ReleasedAll(p, f) == [l \in Locks |-> IF f[l] = p THEN 0 ELSE f[l]]

\* the command returns r: every guard is dropped
Return(p, r) ==
    /\ vm_cmd' = [vm_cmd EXCEPT ![p] = "idle"]
    /\ vm_pc' = [vm_pc EXCEPT ![p] = "idle"]
    /\ vm_ret' = [vm_ret EXCEPT ![p] = r]

Goto(p, l) ==
    /\ vm_pc' = [vm_pc EXCEPT ![p] = l]
    /\ UNCHANGED <<vm_cmd, vm_ret>>

\* the front-end invokes a command
Invoke(p) ==
    /\ vm_cmd[p] = "idle"
    /\ vm_calls < MaxCalls
    /\ \E c \in Commands, i \in 0..MaxIndex :
        /\ vm_cmd' = [vm_cmd EXCEPT ![p] = c]
        /\ vm_arg' = [vm_arg EXCEPT ![p] = IF c \in {"save_record_to", "start_record", "switch"} THEN i ELSE 0]
    /\ vm_pc' = [vm_pc EXCEPT ![p] = "start"]
    /\ vm_ret' = [vm_ret EXCEPT ![p] = "none"]
    /\ vm_tmp' = [vm_tmp EXCEPT ![p] = NoAction]
    /\ vm_calls' = vm_calls + 1
    /\ vm_hs' = [vm_hs EXCEPT ![p] = <<>>]
    /\ vm_io' = [vm_io EXCEPT ![p] = <<>>]
    /\ UNCHANGED <<context, records, action, lk, notVM>>

\* ---- commands that take one lock for one statement
get_settings(p) ==
    /\ vm_cmd[p] = "get_settings" /\ vm_pc[p] = "start"
    /\ CanLock(p)
    /\ Return(p, "ok")
    /\ UNCHANGED <<context, records, action, lk, vm_arg, vm_tmp, vm_calls, vm_hs, vm_io, notVM>>

set_settings(p) ==
    /\ vm_cmd[p] = "set_settings" /\ vm_pc[p] = "start"
    /\ CanLock(p)
    /\ context' = IF context.some THEN [context EXCEPT !.settings = "set"] ELSE context
    /\ Return(p, "ok")
    /\ UNCHANGED <<records, action, lk, vm_arg, vm_tmp, vm_calls, vm_hs, vm_io, notVM>>

get_records(p) ==
    /\ vm_cmd[p] = "get_records" /\ vm_pc[p] = "start"
    /\ CanLock(p)
    /\ Return(p, "ok")
    /\ UNCHANGED <<context, records, action, lk, vm_arg, vm_tmp, vm_calls, vm_hs, vm_io, notVM>>

info(p) ==
    /\ vm_cmd[p] = "info" /\ vm_pc[p] = "start"
    /\ CanLock(p)
    /\ Return(p, IF context.some THEN "some" ELSE "none")
    /\ UNCHANGED <<context, records, action, lk, vm_arg, vm_tmp, vm_calls, vm_hs, vm_io, notVM>>

start_new(p) ==
    /\ vm_cmd[p] = "start_new" /\ vm_pc[p] = "start"
    /\ CanLock(p)
    /\ context' = IF context.some THEN CtxInitNew(context) ELSE context
    /\ Return(p, "ok")
    /\ UNCHANGED <<records, action, lk, vm_arg, vm_tmp, vm_calls, vm_hs, vm_io, notVM>>

current_run(p) ==
    /\ vm_cmd[p] = "current_run" /\ vm_pc[p] = "start"
    /\ CanLock(p)
    /\ Return(p, IF action = NoAction THEN "none" ELSE "some")
    /\ UNCHANGED <<context, records, action, lk, vm_arg, vm_tmp, vm_calls, vm_hs, vm_io, notVM>>

\* a history command that returns the history as the record holds it
history_in_order(p) ==
    /\ vm_cmd[p] = "history" /\ vm_pc[p] = "start"
    /\ CanLock(p)
    /\ vm_hs' = [vm_hs EXCEPT ![p] = IF context.some THEN CtxHistory(context) ELSE <<>>]
    /\ Return(p, "ok")
    /\ UNCHANGED <<context, records, action, lk, vm_arg, vm_tmp, vm_calls, vm_io, notVM>>

\* ---- history (main.rs:320-332): the history of the record, cloned and reversed
history(p) ==
    /\ vm_cmd[p] = "history" /\ vm_pc[p] = "start"
    /\ CanLock(p)
    /\ vm_hs' = [vm_hs EXCEPT ![p] = IF context.some THEN Reverse(CtxHistory(context)) ELSE <<>>]
    /\ Return(p, "ok")
    /\ UNCHANGED <<context, records, action, lk, vm_arg, vm_tmp, vm_calls, vm_io, notVM>>

\* a save_record_to that appends whatever the index
save_record_to_appending(p) ==
    /\ vm_cmd[p] = "save_record_to"
    /\ \/ /\ vm_pc[p] = "start"
          /\ CanLock(p)
          /\ lk' = Locked(p)
          /\ Goto(p, "l146")
          /\ UNCHANGED <<context, records, action>>
       \/ /\ vm_pc[p] = "l146"
          /\ CanLock(p)
          /\ records' =
                IF ~context.some THEN records
                ELSE Append(records, context.hist)
          /\ lk' = ReleasedAll(p, lk)
          /\ Return(p, "ok")
          /\ UNCHANGED <<context, action>>
    /\ UNCHANGED <<vm_arg, vm_tmp, vm_calls, vm_hs, vm_io, notVM>>

\* ---- save_record_to (main.rs:143-160)
\* the records guard is a local of the body; the context guard is a temporary
\* of the `if let` and lives to its end
save_record_to(p) ==
    /\ vm_cmd[p] = "save_record_to"
    /\ \/ /\ vm_pc[p] = "start"         \* let mut records = storage.records.lock().await
          /\ CanLock(p)
          /\ lk' = Locked(p)
          /\ Goto(p, "l146")
          /\ UNCHANGED <<context, records, action>>
       \/ /\ vm_pc[p] = "l146"          \* storage.context.lock().await ... and the body
          /\ CanLock(p)
          /\ records' =
                IF ~context.some THEN records
                ELSE IF vm_arg[p] >= Len(records) THEN Append(records, context.hist)
                ELSE [records EXCEPT ![vm_arg[p] + 1] = context.hist]
          /\ lk' = ReleasedAll(p, lk)
          /\ Return(p, "ok")
          /\ UNCHANGED <<context, action>>
    /\ UNCHANGED <<vm_arg, vm_tmp, vm_calls, vm_hs, vm_io, notVM>>

\* the task attempts a save, which succeeds or fails
Saving(p, what, ok) == [vm_io EXCEPT ![p] = Append(@, [what |-> what, ok |-> ok])]

\* a save_all that goes on to the next save when the settings were not saved
save_all_going_on(p) ==
    /\ vm_cmd[p] = "save_all"
    /\ \/ /\ vm_pc[p] = "start"
          /\ CanLock(p)
          /\ IF context.some
             THEN lk' = Locked(p) /\ Goto(p, "l166")
             ELSE lk' = lk /\ Return(p, "ok")
          /\ vm_io' = vm_io
       \/ /\ vm_pc[p] = "l166"
          /\ \E ok \in BOOLEAN : vm_io' = Saving(p, "settings", ok)
          /\ Goto(p, "l167") /\ lk' = lk
       \/ /\ vm_pc[p] = "l167"
          /\ \/ vm_io' = Saving(p, "global", TRUE) /\ Goto(p, "l168") /\ lk' = lk
             \/ vm_io' = Saving(p, "global", FALSE) /\ Return(p, "err") /\ lk' = ReleasedAll(p, lk)
       \/ /\ vm_pc[p] = "l168"
          /\ CanLock(p)
          /\ lk' = ReleasedAll(p, lk)
          /\ \/ vm_io' = Saving(p, "records", TRUE) /\ Return(p, "ok")
             \/ vm_io' = Saving(p, "records", FALSE) /\ Return(p, "err")
    /\ UNCHANGED <<context, records, action, vm_arg, vm_tmp, vm_calls, vm_hs, notVM>>

\* ---- save_all (main.rs:162-171)
\* the context guard lives to the end of the `if let`; each save can fail
save_all(p) ==
    /\ vm_cmd[p] = "save_all"
    /\ \/ /\ vm_pc[p] = "start"         \* storage.context.lock().await.as_ref()
          /\ CanLock(p)
          /\ IF context.some
             THEN lk' = Locked(p) /\ Goto(p, "l166")
             ELSE lk' = lk /\ Return(p, "ok")
          /\ vm_io' = vm_io
       \/ /\ vm_pc[p] = "l166"          \* save_settings(..).await?
          /\ \/ vm_io' = Saving(p, "settings", TRUE) /\ Goto(p, "l167") /\ lk' = lk
             \/ vm_io' = Saving(p, "settings", FALSE) /\ Return(p, "err") /\ lk' = ReleasedAll(p, lk)
       \/ /\ vm_pc[p] = "l167"          \* save_global_record(..).await?
          /\ \/ vm_io' = Saving(p, "global", TRUE) /\ Goto(p, "l168") /\ lk' = lk
             \/ vm_io' = Saving(p, "global", FALSE) /\ Return(p, "err") /\ lk' = ReleasedAll(p, lk)
       \/ /\ vm_pc[p] = "l168"          \* save_records(.., &storage.records.lock().await).await?
          /\ CanLock(p)
          /\ lk' = ReleasedAll(p, lk)
          /\ \/ vm_io' = Saving(p, "records", TRUE) /\ Return(p, "ok")
             \/ vm_io' = Saving(p, "records", FALSE) /\ Return(p, "err")
    /\ UNCHANGED <<context, records, action, vm_arg, vm_tmp, vm_calls, vm_hs, notVM>>

\* ---- start_record (main.rs:238-254)
\* the records guard and the action guard are temporaries of their statements;
\* indexing past the end and last() of an empty history panic
start_record(p) ==
    /\ vm_cmd[p] = "start_record"
    /\ \/ /\ vm_pc[p] = "start"         \* storage.context.lock().await.as_mut()
          /\ CanLock(p)
          /\ IF context.some
             THEN lk' = Locked(p) /\ Goto(p, "l245")
             ELSE lk' = lk /\ Return(p, "ok")
          /\ UNCHANGED <<context, action, vm_tmp>>
       \/ /\ vm_pc[p] = "l245"          \* storage.records.lock().await[index].clone()
          /\ CanLock(p)
          /\ IF vm_arg[p] >= Len(records) \/ records[vm_arg[p] + 1] = 0
             THEN /\ lk' = ReleasedAll(p, lk)
                  /\ Return(p, "panic")
                  /\ vm_tmp' = vm_tmp
             ELSE /\ lk' = lk
                  /\ Goto(p, "l247")
                  /\ vm_tmp' = [vm_tmp EXCEPT ![p] = records[vm_arg[p] + 1]]
          /\ UNCHANGED <<context, action>>
       \/ /\ vm_pc[p] = "l247"          \* *storage.action.lock().await = Some(last_line)
          /\ CanLock(p)
          /\ action' = vm_tmp[p]
          /\ context' = CtxInitContext(context, vm_tmp[p])
          /\ lk' = ReleasedAll(p, lk)
          /\ Return(p, "ok")
          /\ vm_tmp' = vm_tmp
    /\ UNCHANGED <<records, vm_arg, vm_calls, vm_hs, vm_io, notVM>>

\* a next_run that keeps the current action when no action is left
next_run_keeping(p) ==
    /\ vm_cmd[p] = "next_run"
    /\ \/ /\ vm_pc[p] = "start"
          /\ CanLock(p)
          /\ lk' = Locked(p)
          /\ context' = IF context.some THEN CtxNextRun(context).ctx ELSE context
          /\ vm_tmp' = [vm_tmp EXCEPT ![p] =
                IF context.some THEN CtxNextRun(context).res ELSE NoAction]
          /\ Goto(p, "l262")
          /\ UNCHANGED action
       \/ /\ vm_pc[p] = "l262"
          /\ CanLock(p)
          /\ action' = IF vm_tmp[p] # NoAction THEN vm_tmp[p] ELSE action
          /\ lk' = ReleasedAll(p, lk)
          /\ Return(p, IF vm_tmp[p] # NoAction THEN "true" ELSE "false")
          /\ UNCHANGED <<context, vm_tmp>>
    /\ UNCHANGED <<records, vm_arg, vm_calls, vm_hs, vm_io, notVM>>

\* ---- next_run (main.rs:256-269)
\* the context guard is a local of the body, held while the action lock is taken
next_run(p) ==
    /\ vm_cmd[p] = "next_run"
    /\ \/ /\ vm_pc[p] = "start"         \* context.as_mut().and_then(|c| c.next_run())
          /\ CanLock(p)
          /\ lk' = Locked(p)
          /\ context' = IF context.some THEN CtxNextRun(context).ctx ELSE context
          /\ vm_tmp' = [vm_tmp EXCEPT ![p] =
                IF context.some THEN CtxNextRun(context).res ELSE NoAction]
          /\ Goto(p, "l262")
          /\ UNCHANGED action
       \/ /\ vm_pc[p] = "l262"          \* *storage.action.lock().await = Some(action) / None
          /\ CanLock(p)
          /\ action' = vm_tmp[p]
          /\ lk' = ReleasedAll(p, lk)
          /\ Return(p, IF vm_tmp[p] # NoAction THEN "true" ELSE "false")
          /\ UNCHANGED <<context, vm_tmp>>
    /\ UNCHANGED <<records, vm_arg, vm_calls, vm_hs, vm_io, notVM>>

\* a next_back_run that clears the current action
next_back_run_clearing(p) ==
    /\ vm_cmd[p] = "next_back_run"
    /\ \/ /\ vm_pc[p] = "start"
          /\ CanLock(p)
          /\ LET r == IF context.some THEN CtxNextBackRun(context)
                      ELSE [ctx |-> context, res |-> NoAction]
             IN  /\ context' = r.ctx
                 /\ vm_tmp' = [vm_tmp EXCEPT ![p] = r.res]
                 /\ IF r.res # NoAction
                    THEN lk' = Locked(p) /\ Goto(p, "l277")
                    ELSE lk' = lk /\ Return(p, "false")
          /\ UNCHANGED action
       \/ /\ vm_pc[p] = "l277"
          /\ CanLock(p)
          /\ action' = NoAction
          /\ lk' = ReleasedAll(p, lk)
          /\ Return(p, "true")
          /\ UNCHANGED <<context, vm_tmp>>
    /\ UNCHANGED <<records, vm_arg, vm_calls, vm_hs, vm_io, notVM>>

\* ---- next_back_run (main.rs:271-283)
\* with no action in the history the action lock is not taken
next_back_run(p) ==
    /\ vm_cmd[p] = "next_back_run"
    /\ \/ /\ vm_pc[p] = "start"         \* context.as_mut().and_then(|c| c.next_back_run())
          /\ CanLock(p)
          /\ LET r == IF context.some THEN CtxNextBackRun(context)
                      ELSE [ctx |-> context, res |-> NoAction]
             IN  /\ context' = r.ctx
                 /\ vm_tmp' = [vm_tmp EXCEPT ![p] = r.res]
                 /\ IF r.res # NoAction
                    THEN lk' = Locked(p) /\ Goto(p, "l277")
                    ELSE lk' = lk /\ Return(p, "false")
          /\ UNCHANGED action
       \/ /\ vm_pc[p] = "l277"          \* *storage.action.lock().await = Some(action)
          /\ CanLock(p)
          /\ action' = vm_tmp[p]
          /\ lk' = ReleasedAll(p, lk)
          /\ Return(p, "true")
          /\ UNCHANGED <<context, vm_tmp>>
    /\ UNCHANGED <<records, vm_arg, vm_calls, vm_hs, vm_io, notVM>>

\* ---- current_visited (main.rs:285-298)
\* the action guard is a local of the body, held while the context lock is taken
current_visited(p) ==
    /\ vm_cmd[p] = "current_visited"
    /\ \/ /\ vm_pc[p] = "start"         \* let action = storage.action.lock().await
          /\ CanLock(p)
          /\ IF action # NoAction
             THEN lk' = Locked(p) /\ Goto(p, "l289")
             ELSE lk' = lk /\ Return(p, "false")
       \/ /\ vm_pc[p] = "l289"          \* let context = storage.context.lock().await
          /\ CanLock(p)
          /\ lk' = ReleasedAll(p, lk)
          /\ Return(p, IF context.some /\ CtxVisited(context, action) THEN "true" ELSE "false")
    /\ UNCHANGED <<context, records, action, vm_arg, vm_tmp, vm_calls, vm_hs, vm_io, notVM>>

\* a switch that evaluates the program before it looks at the index
switch_evaluating_first(p) ==
    /\ vm_cmd[p] = "switch"
    /\ \/ /\ vm_pc[p] = "start"
          /\ CanLock(p)
          /\ IF context.some
             THEN lk' = Locked(p) /\ Goto(p, "l312")
             ELSE lk' = lk /\ Return(p, "err")
          /\ UNCHANGED context
       \/ /\ vm_pc[p] = "l312"
          /\ CanLock(p)
          /\ lk' = ReleasedAll(p, lk)
          /\ context' = CtxCall(context)
          /\ Return(p, IF action # NoAction /\ vm_arg[p] < NSwitches(action)
                       THEN "value" ELSE "err")
    /\ UNCHANGED <<records, action, vm_arg, vm_tmp, vm_calls, vm_hs, vm_io, notVM>>

\* ---- switch (main.rs:305-318)
\* the context guard is a local of the body, held while the action lock is taken
switch(p) ==
    /\ vm_cmd[p] = "switch"
    /\ \/ /\ vm_pc[p] = "start"         \* storage.context.lock().await ... ok_or_else(..)?
          /\ CanLock(p)
          /\ IF context.some
             THEN lk' = Locked(p) /\ Goto(p, "l312")
             ELSE lk' = lk /\ Return(p, "err")
          /\ UNCHANGED context
       \/ /\ vm_pc[p] = "l312"          \* storage.action.lock().await ... switches.get(i)
          /\ CanLock(p)
          /\ lk' = ReleasedAll(p, lk)
          /\ IF action # NoAction /\ vm_arg[p] < NSwitches(action)
             THEN /\ context' = CtxCall(context)    \* Ok(context.call(&switch.action))
                  /\ Return(p, "value")
             ELSE /\ context' = context             \* .ok_or_else(|| anyhow!("Index error"))?
                  /\ Return(p, "err")
    /\ UNCHANGED <<records, action, vm_arg, vm_tmp, vm_calls, vm_hs, vm_io, notVM>>

NextVM ==
    \E p \in Procs :
        \/ Invoke(p)
        \/ get_settings(p) \/ set_settings(p) \/ get_records(p) \/ info(p)
        \/ start_new(p) \/ current_run(p) \/ history(p)
        \/ save_record_to(p) \/ save_all(p) \/ start_record(p)
        \/ next_run(p) \/ next_back_run(p) \/ current_visited(p) \/ switch(p)

\* ---- one front-end that awaits each command before it invokes the next
NoCommand == [cmd |-> "none", arg |-> 0, ctx |-> NoContext, recs |-> <<>>, act |-> NoAction,
              ret |-> "none", tmp |-> NoAction]
IdlePlay ==
    /\ pl_cur = NoCommand
    /\ pl_prev = NoCommand

\* invoke(c, {index: i}) once the command before it has returned
PlayInvoke ==
    /\ vm_cmd[1] = "idle"
    /\ vm_calls < MaxCalls
    /\ \E c \in Commands, i \in 0..MaxIndex :
        /\ vm_cmd' = [vm_cmd EXCEPT ![1] = c]
        /\ vm_arg' = [vm_arg EXCEPT ![1] = IF c \in {"save_record_to", "start_record", "switch"} THEN i ELSE 0]
        /\ pl_cur' = [cmd |-> c, arg |-> vm_arg'[1], ctx |-> context, recs |-> records,
                      act |-> action, ret |-> "none", tmp |-> NoAction]
    /\ pl_prev' = [pl_cur EXCEPT !.ret = vm_ret[1], !.tmp = vm_tmp[1], !.act = action]
    /\ vm_pc' = [vm_pc EXCEPT ![1] = "start"]
    /\ vm_ret' = [vm_ret EXCEPT ![1] = "none"]
    /\ vm_tmp' = [vm_tmp EXCEPT ![1] = NoAction]
    /\ vm_calls' = vm_calls + 1
    /\ vm_hs' = [vm_hs EXCEPT ![1] = <<>>]
    /\ vm_io' = [vm_io EXCEPT ![1] = <<>>]
    /\ UNCHANGED <<context, records, action, lk, ogVars, ldVars, clVars, pkVars, scVars, lcVars, imVars>>

NextPlay ==
    \/ PlayInvoke
    \/ get_settings(1) \/ set_settings(1) \/ get_records(1) \/ info(1)
    \/ start_new(1) \/ current_run(1) \/ history(1)
    \/ save_record_to(1) \/ save_all(1) \/ start_record(1)
    \/ next_run(1) \/ next_back_run(1) \/ current_visited(1) \/ switch(1)

\* ======================================================================
\* Runtime::load (utils/ayaka-runtime/src/plugin.rs)
\* ======================================================================
\* the entries a plugin directory may hold: two modules, a text file and a
\* directory whose name ends in .wasm
DirUniverse ==
    {[stem |-> "a", ext |-> "wasm", file |-> TRUE],
     [stem |-> "b", ext |-> "wasm", file |-> TRUE],
     [stem |-> "c", ext |-> "txt", file |-> TRUE],
     [stem |-> "d", ext |-> "wasm", file |-> FALSE]}
Stems == {"a", "b", "c", "d"}
NameUniverse == {"a", "b", "c"}
Cmds == {"c1"}
NoModule == "-"

\* lexical order of the file names
NameRank(n) == CASE n = "a" -> 1 [] n = "b" -> 2 [] n = "c" -> 3 [] n = "d" -> 4 [] OTHER -> 0

PTypes == [action : BOOLEAN, text : SUBSET Cmds, line : SUBSET Cmds, game : BOOLEAN]
PTypeDefault == [action |-> FALSE, text |-> {}, line |-> {}, game |-> FALSE]

Orderings(S) ==
    {f \in [1..Cardinality(S) -> S] : \A i, j \in 1..Cardinality(S) : i # j => f[i] # f[j]}
DirListings == UNION {Orderings(S) : S \in SUBSET DirUniverse}
NameLists == UNION {[1..n -> NameUniverse] : n \in 0..MaxNames}

CreateEngineStatus == [t |-> "CreateEngine", name |-> "", i |-> 0, total |-> 0]
LoadPluginStatusFromOne(name, i, total) == [t |-> "LoadPlugin", name |-> name, i |-> i + 1, total |-> total]
LoadPluginStatus(name, i, total) == [t |-> "LoadPlugin", name |-> name, i |-> i, total |-> total]

IdleLoad ==
    /\ ld_names = <<>> /\ ld_dir = <<>>
    /\ ld_ptype = [n \in Stems |-> PTypeDefault]
    /\ ld_known = {}
    /\ ld_pc = "idle"
    /\ ld_paths = <<>>
    /\ ld_i = 0
    /\ ld_status = <<>>
    /\ ld_taken = 0
    /\ ld_read = <<>>
    /\ ld_err = "none"
    /\ modules = [n \in Stems |-> 0]
    /\ action_modules = <<>>
    /\ text_modules = [c \in Cmds |-> NoModule]
    /\ line_modules = [c \in Cmds |-> NoModule]
    /\ game_modules = <<>>

\* p.is_file() && p.extension() == "wasm" (plugin.rs:323)
IsWasmFile(e) == e.file /\ e.ext = "wasm"

\* read_dir(path).try_filter_map(..).try_collect() (plugin.rs:320-334): the
\* names of the module files, in the order the directory enumerates them
ListDir(dir) ==
    LET kept == SelectSeq(dir, IsWasmFile)
    IN  [k \in 1..Len(kept) |-> kept[k].stem]

\* path.join(name).with_extension("wasm").exists() (plugin.rs:340-341)
Exists(dir, name) ==
    \E k \in 1..Len(dir) : dir[k].stem = name /\ dir[k].ext = "wasm"

\* a name list taken as it is, missing files included
ListNamesUnfiltered(dir, names) == names

\* names.iter().filter_map(..).collect() (plugin.rs:336-347)
ListNames(dir, names) == SelectSeq(names, LAMBDA n : Exists(dir, n))

\* std::fs::read(p) succeeds only on a regular file
Readable(dir, name) ==
    \E k \in 1..Len(dir) : dir[k].stem = name /\ dir[k].ext = "wasm" /\ dir[k].file

\* a registration that keeps the first module of a command
RegisterCommandsFirst(map, cmds, name) ==
    [c \in Cmds |-> IF c \in cmds /\ map[c] = NoModule THEN name ELSE map[c]]

\* for cmd in plugin_type.text { text_modules.insert(cmd, name) } (plugin.rs:359-376)
RegisterCommands(map, cmds, name) ==
    [c \in Cmds |-> IF c \in cmds THEN name ELSE map[c]]

\* if plugin_type.action { action_modules.push(name) } (plugin.rs:356-358, 377-379)
PushIf(flag, list, name) == IF flag THEN Append(list, name) ELSE list

\* all yielded statuses have been taken: the stream is polled again
Polled == ld_taken = Len(ld_status)

Yield(st) == ld_status' = Append(ld_status, st)

ldOut == <<modules, action_modules, text_modules, line_modules, game_modules>>

\* yield LoadStatus::CreateEngine (plugin.rs:310-312)
load_CreateEngine ==
    /\ ld_pc = "start"
    /\ Yield(CreateEngineStatus)
    /\ ld_pc' = "linker"
    /\ UNCHANGED <<ldInVars, ld_ptype, ld_known, ld_paths, ld_i, ld_taken, ld_read, ld_err,
                   ldOut, notLoad>>

\* let (linker, store) = Self::new_linker(root_path)? (plugin.rs:313-318)
load_new_linker ==
    /\ ld_pc = "linker" /\ Polled
    /\ \/ ld_pc' = "paths" /\ ld_err' = ld_err
       \/ ld_pc' = "err" /\ ld_err' = "new_linker"
    /\ UNCHANGED <<ldInVars, ld_ptype, ld_known, ld_paths, ld_i, ld_status, ld_taken,
                   ld_read, ldOut, notLoad>>

\* let paths = if names.is_empty() { read_dir .. } else { names .. } (plugin.rs:319-349)
load_paths ==
    /\ ld_pc = "paths"
    /\ \/ /\ ld_names = <<>>
          /\ \/ /\ ld_paths' = ListDir(ld_dir)
                /\ ld_pc' = "loop" /\ ld_err' = ld_err
             \/ /\ ld_dir = <<>>            \* read_dir(path)? on a missing directory
                /\ ld_paths' = ld_paths
                /\ ld_pc' = "err" /\ ld_err' = "read_dir"
       \/ /\ ld_names # <<>>
          /\ ld_paths' = ListNames(ld_dir, ld_names)
          /\ ld_pc' = "loop" /\ ld_err' = ld_err
    /\ UNCHANGED <<ldInVars, ld_ptype, ld_known, ld_i, ld_status, ld_taken, ld_read,
                   ldOut, notLoad>>

\* for (i, (name, p)) in paths.into_iter().enumerate() { yield LoadPlugin(name, i, total_len)
\* (plugin.rs:349-351), and Ok(Self { .. }) after the loop (plugin.rs:382-388)
load_LoadPlugin ==
    /\ ld_pc = "loop"
    /\ IF ld_i < Len(ld_paths)
       THEN /\ Yield(LoadPluginStatus(ld_paths[ld_i + 1], ld_i, Len(ld_paths)))
            /\ ld_pc' = "body"
       ELSE /\ ld_status' = ld_status
            /\ ld_pc' = "done"
    /\ UNCHANGED <<ldInVars, ld_ptype, ld_known, ld_paths, ld_i, ld_taken, ld_read, ld_err,
                   ldOut, notLoad>>

\* the loop body (plugin.rs:352-380): read the file, create the module and the
\* host, call plugin_type(), index the module
load_module ==
    /\ ld_pc = "body" /\ Polled
    /\ LET name == ld_paths[ld_i + 1] IN
       \/ /\ \E why \in {"read", "module", "plugin_type"} :
                /\ (~Readable(ld_dir, name)) => why = "read"
                /\ ld_err' = why
          /\ ld_pc' = "err"
          /\ ld_read' = IF ld_err' = "read" THEN ld_read ELSE Append(ld_read, ld_i)
          /\ UNCHANGED <<ld_ptype, ld_known, ld_i, ldOut>>
       \/ /\ Readable(ld_dir, name)
          /\ \E t \in PTypes :
                /\ name \in ld_known => t = ld_ptype[name]
                /\ ld_ptype' = [ld_ptype EXCEPT ![name] = t]
                /\ ld_known' = ld_known \cup {name}
                /\ action_modules' = PushIf(t.action, action_modules, name)
                /\ text_modules' = RegisterCommands(text_modules, t.text, name)
                /\ line_modules' = RegisterCommands(line_modules, t.line, name)
                /\ game_modules' = PushIf(t.game, game_modules, name)
                /\ modules' = [modules EXCEPT ![name] = ld_i + 1]
          /\ ld_read' = Append(ld_read, ld_i)
          /\ ld_i' = ld_i + 1
          /\ ld_pc' = "loop"
          /\ ld_err' = ld_err
    /\ UNCHANGED <<ldInVars, ld_paths, ld_status, ld_taken, notLoad>>

\* Runtime::load(..).await (tests/runtime.rs:27-33): the caller drives the
\* stream to its end and drops each status
load_await ==
    /\ ~Polled
    /\ ld_taken' = ld_taken + 1
    /\ UNCHANGED <<ldInVars, ld_ptype, ld_known, ld_pc, ld_paths, ld_i, ld_status, ld_read,
                   ld_err, ldOut, notLoad>>

LoadSteps ==
    \/ load_CreateEngine
    \/ load_new_linker
    \/ load_paths
    \/ load_LoadPlugin
    \/ load_module

NextLoad == LoadSteps \/ load_await

\* the name list and the directory a load is called with
LoadInputs ==
    /\ ld_names \in NameLists
    /\ ld_dir \in DirListings

InitLoad ==
    /\ LoadInputs
    /\ ld_ptype = [n \in Stems |-> PTypeDefault]
    /\ ld_known = {}
    /\ ld_pc = "start"
    /\ ld_paths = <<>>
    /\ ld_i = 0
    /\ ld_status = <<>>
    /\ ld_taken = 0
    /\ ld_read = <<>>
    /\ ld_err = "none"
    /\ modules = [n \in Stems |-> 0]
    /\ action_modules = <<>>
    /\ text_modules = [c \in Cmds |-> NoModule]
    /\ line_modules = [c \in Cmds |-> NoModule]
    /\ game_modules = <<>>

\* ---- the accessors of the loaded Runtime (plugin.rs:391-418)
\* a module is named by the index at which it was loaded (0 = none)
module(key) == IF key \in Stems THEN modules[key] ELSE 0
text_module(cmd) == IF cmd \in Cmds /\ text_modules[cmd] # NoModule THEN module(text_modules[cmd]) ELSE 0
line_module(cmd) == IF cmd \in Cmds /\ line_modules[cmd] # NoModule THEN module(line_modules[cmd]) ELSE 0
\* .map(|key| self.module(key).unwrap()): each key must be in the map
action_modules_iter == [k \in 1..Len(action_modules) |-> module(action_modules[k])]
game_modules_iter == [k \in 1..Len(game_modules) |-> module(game_modules[k])]

\* ======================================================================
\* open_game (bins/ayaka-gui/src-tauri/src/main.rs:67-117)
\* ======================================================================
Status(t) == [t |-> t, name |-> "", i |-> 0, total |-> 0]

\* the save records the settings manager may find on disk
DiskRecords == {<<>>, <<2>>}

IdleOpen ==
    /\ og_pc = "idle"
    /\ og_events = <<>>
    /\ og_ctx = NoContext
    /\ og_fail = {}
    /\ og_err = "none"
    /\ og_log = <<>>
    /\ og_old = <<context, records>>

\* handle.emit_all("ayaka://open_status", status) succeeded (main.rs:60-65)
Emitted(st) == og_events' = Append(og_events, st)

\* `?` on an error: open_game returns Err(why)
Fail(why) ==
    /\ og_pc' = "failed"
    /\ og_err' = why

loadRest == <<ldInVars, ld_ptype, ld_known, ld_paths, ld_i, ld_status, ld_read, ld_err, ldOut>>

\* Context::open yields LoadProfile first; open_game emits it (main.rs:70-76)
open_LoadProfile ==
    /\ og_pc = "start"
    /\ \/ Emitted(Status("LoadProfile")) /\ og_pc' = "config" /\ og_err' = og_err
       \/ Fail("emit") /\ og_events' = og_events
    /\ UNCHANGED <<context, records, og_ctx, og_fail, og_log, ldVars, notOpen>>

\* Context::open reads the game configuration, then calls Runtime::load
open_config ==
    /\ og_pc = "config"
    /\ \/ og_pc' = "runtime" /\ ld_pc' = "start" /\ og_err' = og_err
       \/ Fail("config") /\ ld_pc' = ld_pc
    /\ UNCHANGED <<context, records, og_events, og_ctx, og_fail, og_log, loadRest, ld_taken,
                   notOpen>>

\* the status Context::open forwards for a status of Runtime::load
Forwarded(st) == IF st.t = "CreateEngine" THEN Status("CreateRuntime") ELSE st

\* while let Some(status) = context.next().await { emit ..? } (main.rs:72-82)
open_forward ==
    /\ og_pc = "runtime"
    /\ ~Polled
    /\ \/ /\ Emitted(Forwarded(ld_status[ld_taken + 1]))
          /\ ld_taken' = ld_taken + 1
          /\ UNCHANGED <<og_pc, og_err, ld_pc>>
       \/ /\ Fail("emit")
          /\ ld_pc' = "dropped"
          /\ UNCHANGED <<og_events, ld_taken>>
    /\ UNCHANGED <<context, records, og_ctx, og_fail, og_log, loadRest, notOpen>>

\* a context.await whose error is dropped
open_context_unchecked ==
    /\ og_pc = "runtime"
    /\ ld_pc \in {"done", "err"}
    /\ og_ctx' = [some |-> TRUE, hist |-> 0, settings |-> "none", global |-> "none", calls |-> 0]
    /\ og_pc' = "set_title" /\ og_err' = og_err
    /\ UNCHANGED <<context, records, og_events, og_fail, og_log, ldVars, notOpen>>

\* let mut ctx = context.await? (main.rs:83)
open_context ==
    /\ og_pc = "runtime"
    /\ \/ /\ ld_pc = "done"
          /\ og_ctx' = [some |-> TRUE, hist |-> 0, settings |-> "none", global |-> "none", calls |-> 0]
          /\ og_pc' = "set_title" /\ og_err' = og_err
       \/ /\ ld_pc = "err"
          /\ Fail("plugin")
          /\ og_ctx' = og_ctx
    /\ UNCHANGED <<context, records, og_events, og_fail, og_log, ldVars, notOpen>>

\* window.set_title(&ctx.game.title)? (main.rs:85-86)
open_set_title ==
    /\ og_pc = "set_title"
    /\ \/ og_pc' = "LoadSettings" /\ og_err' = og_err
       \/ Fail("set_title")
    /\ UNCHANGED <<context, records, og_events, og_ctx, og_fail, og_log, ldVars, notOpen>>

\* a load_settings(..).await? that surfaces the failure
open_LoadSettings_strict ==
    /\ og_pc = "LoadSettings"
    /\ \/ /\ Emitted(Status("LoadSettings"))
          /\ \/ /\ og_ctx' = [og_ctx EXCEPT !.settings = "loaded"] /\ og_fail' = og_fail
                /\ og_pc' = "LoadGlobalRecords" /\ og_err' = og_err
             \/ /\ og_ctx' = og_ctx /\ og_fail' = og_fail \cup {"settings"}
                /\ Fail("settings")
       \/ Fail("emit") /\ UNCHANGED <<og_events, og_ctx, og_fail>>
    /\ UNCHANGED <<context, records, og_log, ldVars, notOpen>>

\* emit LoadSettings, load_settings(..).unwrap_or_else(Settings::new), set_settings
\* (main.rs:87-94)
open_LoadSettings ==
    /\ og_pc = "LoadSettings"
    /\ \/ /\ Emitted(Status("LoadSettings"))
          /\ \/ og_ctx' = [og_ctx EXCEPT !.settings = "loaded"] /\ og_fail' = og_fail
             \/ og_ctx' = [og_ctx EXCEPT !.settings = "default"] /\ og_fail' = og_fail \cup {"settings"}
          /\ og_pc' = "LoadGlobalRecords" /\ og_err' = og_err
       \/ Fail("emit") /\ UNCHANGED <<og_events, og_ctx, og_fail>>
    /\ UNCHANGED <<context, records, og_log, ldVars, notOpen>>

\* emit LoadGlobalRecords, load_global_record(..).unwrap_or_else(Default::default),
\* set_global_record (main.rs:96-104)
open_LoadGlobalRecords ==
    /\ og_pc = "LoadGlobalRecords"
    /\ \/ /\ Emitted(Status("LoadGlobalRecords"))
          /\ \/ og_ctx' = [og_ctx EXCEPT !.global = "loaded"] /\ og_fail' = og_fail
             \/ og_ctx' = [og_ctx EXCEPT !.global = "default"] /\ og_fail' = og_fail \cup {"global"}
          /\ og_pc' = "LoadRecords" /\ og_err' = og_err
       \/ Fail("emit") /\ UNCHANGED <<og_events, og_ctx, og_fail>>
    /\ UNCHANGED <<context, records, og_log, ldVars, notOpen>>

\* emit LoadRecords, *storage.records.lock().await = load_records(..).unwrap_or_else(..)
\* (main.rs:106-112)
open_LoadRecords ==
    /\ og_pc = "LoadRecords"
    /\ \/ /\ Emitted(Status("LoadRecords"))
          /\ lk["records"] = 0
          /\ \/ \E rs \in DiskRecords : records' = rs /\ og_fail' = og_fail
             \/ records' = <<>> /\ og_fail' = og_fail \cup {"records"}
          /\ og_log' = Append(og_log, "records")
          /\ og_pc' = "install" /\ og_err' = og_err
       \/ Fail("emit") /\ UNCHANGED <<og_events, og_fail, og_log, records>>
    /\ UNCHANGED <<context, og_ctx, ldVars, notOpen>>

\* an install that comes after Loaded: the engine is not yet in the storage
open_install_late ==
    /\ og_pc = "install"
    /\ lk["context"] = 0
    /\ context' = context
    /\ og_log' = og_log
    /\ og_pc' = "Loaded"
    /\ UNCHANGED <<records, og_events, og_ctx, og_fail, og_err, ldVars, notOpen>>

\* *storage.context.lock().await = Some(ctx) (main.rs:113)
open_install ==
    /\ og_pc = "install"
    /\ lk["context"] = 0
    /\ context' = og_ctx
    /\ og_log' = Append(og_log, "engine")
    /\ og_pc' = "Loaded"
    /\ UNCHANGED <<records, og_events, og_ctx, og_fail, og_err, ldVars, notOpen>>

\* emit Loaded, Ok(()) (main.rs:115-116)
open_Loaded ==
    /\ og_pc = "Loaded"
    /\ \/ /\ Emitted(Status("Loaded"))
          /\ og_log' = Append(og_log, "Loaded")
          /\ og_pc' = "done" /\ og_err' = og_err
       \/ Fail("emit") /\ UNCHANGED <<og_events, og_log>>
    /\ UNCHANGED <<context, records, og_ctx, og_fail, ldVars, notOpen>>

NextOpen ==
    \/ open_LoadProfile \/ open_config \/ open_forward \/ open_context \/ open_set_title
    \/ open_LoadSettings \/ open_LoadGlobalRecords \/ open_LoadRecords \/ open_install
    \/ open_Loaded
    \/ (og_pc = "runtime" /\ LoadSteps)

\* the plugin types of the module files of the game being opened
OpenPTypes ==
    [n \in Stems |->
        IF n = "a" THEN [action |-> TRUE, text |-> {"c1"}, line |-> {}, game |-> FALSE]
        ELSE [action |-> FALSE, text |-> {"c1"}, line |-> {"c1"}, game |-> TRUE]]

\* the storage open_game is called on: as constructed, or as an earlier game left it
OpenStorageInit ==
    \/ /\ context = NoContext
       /\ records = <<>>
       /\ action = NoAction
    \/ /\ context = [some |-> TRUE, hist |-> 1, settings |-> "set", global |-> "loaded", calls |-> 0]
       /\ records = <<1>>
       /\ action = 1

InitOpen ==
    /\ OpenStorageInit
    /\ IdleTasks
    /\ og_pc = "start"
    /\ og_events = <<>>
    /\ og_ctx = NoContext
    /\ og_fail = {}
    /\ og_err = "none"
    /\ og_log = <<>>
    /\ og_old = <<context, records>>
    /\ LoadInputs
    /\ ld_ptype = OpenPTypes
    /\ ld_known = Stems
    /\ ld_pc = "idle"
    /\ ld_paths = <<>>
    /\ ld_i = 0
    /\ ld_status = <<>>
    /\ ld_taken = 0
    /\ ld_read = <<>>
    /\ ld_err = "none"
    /\ modules = [n \in Stems |-> 0]
    /\ action_modules = <<>>
    /\ text_modules = [c \in Cmds |-> NoModule]
    /\ line_modules = [c \in Cmds |-> NoModule]
    /\ game_modules = <<>>

\* ======================================================================
\* Host-to-module calls
\*   Host::call            (utils/ayaka-runtime/src/plugin.rs:152-172)
\*   WasmEdgeModule::call  (utils/ayaka-plugin-wasmedge/src/lib.rs:66-110)
\* ======================================================================
Calls == {1, 2}
Backends == {"wasmi", "wasmedge"}
NoBufs == [arg |-> FALSE, res |-> FALSE]
NoFrees == [arg |-> 0, res |-> 0]

IdleCall ==
    /\ cl_backend = "wasmi"
    /\ cl_store = 0
    /\ cl_pc = [c \in Calls |-> "idle"]
    /\ cl_alloc = [c \in Calls |-> NoBufs]
    /\ cl_freed = [c \in Calls |-> NoFrees]
    /\ cl_res = [c \in Calls |-> "none"]
    /\ cl_ret = [c \in Calls |-> "none"]
    /\ cl_trace = [c \in Calls |-> <<>>]

InitCall ==
    /\ cl_backend \in Backends
    /\ cl_store = 0
    /\ cl_pc = [c \in Calls |-> "start"]
    /\ cl_alloc = [c \in Calls |-> NoBufs]
    /\ cl_freed = [c \in Calls |-> NoFrees]
    /\ cl_res = [c \in Calls |-> "none"]
    /\ cl_ret = [c \in Calls |-> "none"]
    /\ cl_trace = [c \in Calls |-> <<>>]

At(c, l) == cl_pc' = [cl_pc EXCEPT ![c] = l]
Did(c, op) == cl_trace' = [cl_trace EXCEPT ![c] = Append(@, op)]
\* the call ends with r
Ends(c, r) ==
    /\ cl_pc' = [cl_pc EXCEPT ![c] = "returned"]
    /\ cl_ret' = [cl_ret EXCEPT ![c] = r]
Alloc(c, b) == cl_alloc' = [cl_alloc EXCEPT ![c][b] = TRUE]
\* the buffer is passed to __abi_free
Free(c, b) == cl_freed' = [cl_freed EXCEPT ![c][b] = @ + 1]
Pending(c, r) == cl_res' = [cl_res EXCEPT ![c] = r]

\* ---- Host::call (plugin.rs:152-172): every step locks the store for itself
\* (plugin.rs:60, 69, 92, 98, 116); the two defer! guards run at scope exit in
\* reverse order, on return and on unwinding, and unwrap the result of __abi_free
Host_call(c) ==
    /\ cl_backend = "wasmi"
    /\ cl_store = 0
    /\ \/ /\ cl_pc[c] = "start"         \* self.instance.get_typed_func(name)?
          /\ \/ At(c, "ser") /\ cl_ret' = cl_ret
             \/ Ends(c, "err")
             \/ Ends(c, "panic")        \* get_export(..).unwrap() on a missing export
          /\ UNCHANGED <<cl_alloc, cl_freed, cl_res, cl_trace>>
       \/ /\ cl_pc[c] = "ser"           \* rmp_serde::to_vec(&args)?
          /\ \/ At(c, "alloc") /\ cl_ret' = cl_ret
             \/ Ends(c, "err")
          /\ UNCHANGED <<cl_alloc, cl_freed, cl_res, cl_trace>>
       \/ /\ cl_pc[c] = "alloc"         \* self.abi_alloc.call(len)?, defer!(free(ptr))
          /\ \/ At(c, "write") /\ Alloc(c, "arg") /\ Did(c, "alloc") /\ cl_ret' = cl_ret
             \/ Ends(c, "err") /\ UNCHANGED <<cl_alloc, cl_trace>>
          /\ UNCHANGED <<cl_freed, cl_res>>
       \/ /\ cl_pc[c] = "write"         \* memory.slice_mut(ptr, len, copy_from_slice)
          /\ At(c, "export") /\ Did(c, "write")
          /\ UNCHANGED <<cl_alloc, cl_freed, cl_res, cl_ret>>
       \/ /\ cl_pc[c] = "export"        \* func.call((len, ptr))?, unpack, defer!(free(res))
          /\ \/ At(c, "read") /\ Alloc(c, "res") /\ cl_res' = cl_res
             \/ At(c, "drop_arg") /\ Pending(c, "err") /\ cl_alloc' = cl_alloc
          /\ Did(c, "export")
          /\ UNCHANGED <<cl_freed, cl_ret>>
       \/ /\ cl_pc[c] = "read"          \* memory.slice(res, len, from_slice)?
          /\ At(c, "drop_res") /\ Did(c, "read")
          /\ \/ Pending(c, "ok")
             \/ Pending(c, "err")
          /\ UNCHANGED <<cl_alloc, cl_freed, cl_ret>>
       \/ /\ cl_pc[c] = "drop_res"      \* self.abi_free.call((res, len)).unwrap()
          /\ At(c, "drop_arg") /\ Free(c, "res") /\ Did(c, "free_res")
          /\ \/ cl_res' = cl_res
             \/ Pending(c, "panic")
          /\ UNCHANGED <<cl_alloc, cl_ret>>
       \/ /\ cl_pc[c] = "drop_arg"      \* self.abi_free.call((ptr, len)).unwrap()
          /\ Free(c, "arg") /\ Did(c, "free_arg")
          /\ \/ Ends(c, cl_res[c])
             \/ Ends(c, IF cl_res[c] = "panic" THEN "abort" ELSE "panic")
          /\ UNCHANGED <<cl_alloc, cl_res>>
    /\ UNCHANGED <<cl_backend, cl_store, notCall>>

\* a call_impl that goes on to the export when __abi_alloc failed
call_impl_ignoring_alloc(c) ==
    /\ cl_backend = "wasmedge"
    /\ \/ /\ cl_pc[c] = "start"
          /\ cl_store = 0
          /\ cl_store' = c
          /\ At(c, "get_func")
          /\ UNCHANGED <<cl_alloc, cl_freed, cl_res, cl_ret, cl_trace>>
       \/ /\ cl_pc[c] = "get_func"
          /\ \/ At(c, "alloc") /\ UNCHANGED <<cl_ret, cl_store>>
             \/ Ends(c, "err") /\ cl_store' = 0
          /\ UNCHANGED <<cl_alloc, cl_freed, cl_res, cl_trace>>
       \/ /\ cl_pc[c] = "alloc"
          /\ \/ At(c, "write") /\ Alloc(c, "arg") /\ Did(c, "alloc") /\ UNCHANGED <<cl_ret, cl_store>>
             \/ At(c, "export") /\ UNCHANGED <<cl_alloc, cl_trace, cl_ret, cl_store>>
          /\ UNCHANGED <<cl_freed, cl_res>>
       \/ /\ cl_pc[c] = "write"
          /\ At(c, "export") /\ Did(c, "write")
          /\ UNCHANGED <<cl_alloc, cl_freed, cl_res, cl_ret, cl_store>>
       \/ /\ cl_pc[c] = "export"
          /\ At(c, "free_arg") /\ Did(c, "export")
          /\ \/ Alloc(c, "res") /\ Pending(c, "ok")
             \/ cl_alloc' = cl_alloc /\ Pending(c, "err")
          /\ UNCHANGED <<cl_freed, cl_ret, cl_store>>
       \/ /\ cl_pc[c] = "free_arg"
          /\ Free(c, "arg") /\ Did(c, "free_arg")
          /\ \/ /\ cl_res[c] = "ok"
                /\ At(c, "read") /\ UNCHANGED <<cl_ret, cl_store>>
             \/ /\ cl_res[c] = "err"
                /\ Ends(c, "err") /\ cl_store' = 0
             \/ Ends(c, "err") /\ cl_store' = 0
          /\ UNCHANGED <<cl_alloc, cl_res>>
       \/ /\ cl_pc[c] = "read"
          /\ At(c, "free_res") /\ Did(c, "read")
          /\ \/ Pending(c, "ok")
             \/ Pending(c, "err")
          /\ UNCHANGED <<cl_alloc, cl_freed, cl_ret, cl_store>>
       \/ /\ cl_pc[c] = "free_res"
          /\ Free(c, "res") /\ Did(c, "free_res")
          /\ \/ Ends(c, cl_res[c])
             \/ Ends(c, "err")
          /\ cl_store' = 0
          /\ UNCHANGED <<cl_alloc, cl_res>>
    /\ UNCHANGED <<cl_backend, notCall>>

\* ---- WasmEdgeModule::call and call_impl (lib.rs:66-110): the store is locked
\* for the whole call; each `?` returns at once
call_impl(c) ==
    /\ cl_backend = "wasmedge"
    /\ \/ /\ cl_pc[c] = "start"         \* self.store.lock().unwrap() (lib.rs:108)
          /\ cl_store = 0
          /\ cl_store' = c
          /\ At(c, "get_func")
          /\ UNCHANGED <<cl_alloc, cl_freed, cl_res, cl_ret, cl_trace>>
       \/ /\ cl_pc[c] = "get_func"      \* self.instance.get_typed_func(&mut store, name)?
          /\ \/ At(c, "alloc") /\ UNCHANGED <<cl_ret, cl_store>>
             \/ Ends(c, "err") /\ cl_store' = 0
          /\ UNCHANGED <<cl_alloc, cl_freed, cl_res, cl_trace>>
       \/ /\ cl_pc[c] = "alloc"         \* self.abi_alloc.call(&mut store, len)?
          /\ \/ At(c, "write") /\ Alloc(c, "arg") /\ Did(c, "alloc") /\ UNCHANGED <<cl_ret, cl_store>>
             \/ Ends(c, "err") /\ cl_store' = 0 /\ UNCHANGED <<cl_alloc, cl_trace>>
          /\ UNCHANGED <<cl_freed, cl_res>>
       \/ /\ cl_pc[c] = "write"         \* mem_slice_mut(..).copy_from_slice(data)
          /\ At(c, "export") /\ Did(c, "write")
          /\ UNCHANGED <<cl_alloc, cl_freed, cl_res, cl_ret, cl_store>>
       \/ /\ cl_pc[c] = "export"        \* let res = func.call(&mut store, (len, ptr))
          /\ At(c, "free_arg") /\ Did(c, "export")
          /\ \/ Alloc(c, "res") /\ Pending(c, "ok")
             \/ cl_alloc' = cl_alloc /\ Pending(c, "err")
          /\ UNCHANGED <<cl_freed, cl_ret, cl_store>>
       \/ /\ cl_pc[c] = "free_arg"      \* self.abi_free.call(.., (ptr, len))?; let res = res?
          /\ Free(c, "arg") /\ Did(c, "free_arg")
          /\ \/ /\ cl_res[c] = "ok"
                /\ At(c, "read") /\ UNCHANGED <<cl_ret, cl_store>>
             \/ /\ cl_res[c] = "err"
                /\ Ends(c, "err") /\ cl_store' = 0
             \/ Ends(c, "err") /\ cl_store' = 0     \* __abi_free failed
          /\ UNCHANGED <<cl_alloc, cl_res>>
       \/ /\ cl_pc[c] = "read"          \* unpack, mem_slice(res, len), f(res_data)
          /\ At(c, "free_res") /\ Did(c, "read")
          /\ \/ Pending(c, "ok")
             \/ Pending(c, "err")
          /\ UNCHANGED <<cl_alloc, cl_freed, cl_ret, cl_store>>
       \/ /\ cl_pc[c] = "free_res"      \* self.abi_free.call(.., (res, len))?; res_data?
          /\ Free(c, "res") /\ Did(c, "free_res")
          /\ \/ Ends(c, cl_res[c])
             \/ Ends(c, "err")                       \* __abi_free failed
          /\ cl_store' = 0
          /\ UNCHANGED <<cl_alloc, cl_res>>
    /\ UNCHANGED <<cl_backend, notCall>>

NextCall == \E c \in Calls : Host_call(c) \/ call_impl(c)

\* ======================================================================
\* The packed 64-bit return value
\*   Host::call unpack          (utils/ayaka-runtime/src/plugin.rs:166-167)
\*   call_impl unpack           (utils/ayaka-plugin-wasmedge/src/lib.rs:86-87)
\*   wrap_raw pack              (utils/ayaka-plugin-wasmedge/src/lib.rs:168)
\* A 32-bit value is the signed integer with its bits (two's complement); a
\* 64-bit value is the pair <<high half, low half>> of such integers.
\* ======================================================================
MinI32 == -2147483647 - 1
I32Samples == {0, 1, 2, 65536, 2147483647, -1, -2, MinI32}
PackPaths == {"wasmi_export", "wasmedge_export", "wasmedge_import"}
NoWord == <<>>

RECURSIVE Or32(_, _)
\* a | b on 32-bit values
Or32(a, b) ==
    IF a = 0 THEN b
    ELSE IF b = 0 THEN a
    ELSE IF a = -1 \/ b = -1 THEN -1
    ELSE 2 * Or32(a \div 2, b \div 2) + (IF a % 2 = 1 \/ b % 2 = 1 THEN 1 ELSE 0)

RECURSIVE And32(_, _)
\* a & b on 32-bit values
And32(a, b) ==
    IF a = 0 \/ b = 0 THEN 0
    ELSE IF a = -1 THEN b
    ELSE IF b = -1 THEN a
    ELSE 2 * And32(a \div 2, b \div 2) + (IF a % 2 = 1 /\ b % 2 = 1 THEN 1 ELSE 0)

\* `x as u64` of a usize / u32: zero extension
ZeroExtend(x) == <<0, x>>
\* `x as u64` of an i32: sign extension
SignExtend(x) == <<IF x < 0 THEN -1 ELSE 0, x>>
\* `w << 32`
Shl32(w) == <<w[2], 0>>
\* `w >> 32` of a u64 (logical) and of an i64 (arithmetic)
Shr32(w) == <<0, w[1]>>
Sar32(w) == <<IF w[1] < 0 THEN -1 ELSE 0, w[1]>>
Or64(v, w) == <<Or32(v[1], w[1]), Or32(v[2], w[2])>>
And64(v, w) == <<And32(v[1], w[1]), And32(v[2], w[2])>>
\* the literal 0xFFFFFFFF
LowMask == <<0, -1>>
\* `w as i32`: truncation
AsI32(w) == w[2]

\* ((data.len() as u64) << 32) | (ptr as u64)           (lib.rs:168)
wrap_raw_pack(len, ptr) == Or64(Shl32(ZeroExtend(len)), SignExtend(ptr))
\* ((res >> 32) as i32, (res & 0xFFFFFFFF) as i32), res: i64   (plugin.rs:167)
Host_unpack(res) == <<AsI32(Sar32(res)), AsI32(And64(res, LowMask))>>
\* ((res >> 32) as i32, (res & 0xFFFFFFFF) as i32), res: u64   (lib.rs:87)
call_impl_unpack(res) == <<AsI32(Shr32(res)), AsI32(And64(res, LowMask))>>
\* the module's side of the convention: length in the high 32 bits, pointer
\* in the low 32 bits
module_pack(len, ptr) == <<len, ptr>>
module_unpack(res) == <<res[1], res[2]>>

IdlePack ==
    /\ pk_path = "wasmi_export"
    /\ pk_len = 0
    /\ pk_ptr = 0
    /\ pk_word = NoWord
    /\ pk_out = <<>>
    /\ pk_pc = "idle"

InitPack ==
    /\ pk_path \in PackPaths
    /\ pk_len \in I32Samples
    /\ pk_ptr \in I32Samples
    /\ pk_word = NoWord
    /\ pk_out = <<>>
    /\ pk_pc = "pack"

\* the export returns its packed result
export_returns ==
    /\ pk_pc = "pack"
    /\ pk_path \in {"wasmi_export", "wasmedge_export"}
    /\ pk_word' = module_pack(pk_len, pk_ptr)
    /\ pk_pc' = "unpack"
    /\ UNCHANGED <<pk_path, pk_len, pk_ptr, pk_out, notPack>>

\* Host::call takes the result apart (plugin.rs:166-167)
Host_call_unpack ==
    /\ pk_pc = "unpack"
    /\ pk_path = "wasmi_export"
    /\ pk_out' = Host_unpack(pk_word)
    /\ pk_pc' = "done"
    /\ UNCHANGED <<pk_path, pk_len, pk_ptr, pk_word, notPack>>

\* call_impl takes the result apart (lib.rs:86-87)
call_impl_unpacks ==
    /\ pk_pc = "unpack"
    /\ pk_path = "wasmedge_export"
    /\ pk_out' = call_impl_unpack(pk_word)
    /\ pk_pc' = "done"
    /\ UNCHANGED <<pk_path, pk_len, pk_ptr, pk_word, notPack>>

\* the wrapped import returns its packed result (lib.rs:165-168)
wrap_raw_returns ==
    /\ pk_pc = "pack"
    /\ pk_path = "wasmedge_import"
    /\ pk_word' = wrap_raw_pack(pk_len, pk_ptr)
    /\ pk_pc' = "unpack"
    /\ UNCHANGED <<pk_path, pk_len, pk_ptr, pk_out, notPack>>

\* the module takes the import's result apart
import_unpacks ==
    /\ pk_pc = "unpack"
    /\ pk_path = "wasmedge_import"
    /\ pk_out' = module_unpack(pk_word)
    /\ pk_pc' = "done"
    /\ UNCHANGED <<pk_path, pk_len, pk_ptr, pk_word, notPack>>

NextPack ==
    \/ export_returns
    \/ Host_call_unpack
    \/ call_impl_unpacks
    \/ wrap_raw_returns
    \/ import_unpacks

\* ======================================================================
\* The script interpreter (utils/ayaka-runtime/src/script.rs)
\* A RawValue is [t, v]: Unit, Bool(b), Num(i), Str(s); a string is the
\* sequence of its characters. A VarMap maps each name to a value, or to
\* NoValue when it has no such key.
\* ======================================================================
Unit == [t |-> "Unit", v |-> 0]
Bool(b) == [t |-> "Bool", v |-> b]
Num(i) == [t |-> "Num", v |-> i]
Str(s) == [t |-> "Str", v |-> s]
NoValue == [t |-> "None", v |-> 0]

\* ValueType: Unit < Bool < Num < Str
TypeRank(t) == CASE t = "Unit" -> 0 [] t = "Bool" -> 1 [] t = "Num" -> 2 [] t = "Str" -> 3
MaxType(t, u) == IF TypeRank(t) >= TypeRank(u) THEN t ELSE u

RECURSIVE Digits(_)
\* the decimal digits of n >= 0
Digits(n) ==
    LET d == <<"0", "1", "2", "3", "4", "5", "6", "7", "8", "9">>[(n % 10) + 1]
    IN  IF n < 10 THEN <<d>> ELSE Append(Digits(n \div 10), d)
\* i64::to_string
NumToString(n) == IF n < 0 THEN <<"-">> \o Digits(0 - n) ELSE Digits(n)

\* RawValue::get_bool, get_num, get_str: the coercions
get_bool(x) ==
    CASE x.t = "Bool" -> x.v
      [] x.t = "Num" -> x.v # 0
      [] x.t = "Str" -> x.v # <<>>
      [] OTHER -> FALSE
get_num(x) ==
    CASE x.t = "Bool" -> IF x.v THEN 1 ELSE 0
      [] x.t = "Num" -> x.v
      [] x.t = "Str" -> Len(x.v)
      [] OTHER -> 0
get_str(x) ==
    CASE x.t = "Bool" -> IF x.v THEN <<"t", "r", "u", "e">> ELSE <<"f", "a", "l", "s", "e">>
      [] x.t = "Num" -> NumToString(x.v)
      [] x.t = "Str" -> x.v
      [] OTHER -> <<>>

\* ---- the AST (ayaka_script): Expr, Ref, the operators
Const(v) == [k |-> "Const", v |-> v]
Var(n) == [k |-> "Ref", r |-> "Var", n |-> n]
Ctx(n) == [k |-> "Ref", r |-> "Ctx", n |-> n]
Unary(op, e) == [k |-> "Unary", op |-> op, e |-> e]
BinVal(l, op, r) == [k |-> "Binary", c |-> "Val", op |-> op, lhs |-> l, rhs |-> r]
BinLogic(l, op, r) == [k |-> "Binary", c |-> "Logic", op |-> op, lhs |-> l, rhs |-> r]
Assign(l, r) == [k |-> "Binary", c |-> "Assign", op |-> "", lhs |-> l, rhs |-> r]
Inplace(l, op, r) == [k |-> "Binary", c |-> "Inplace", op |-> op, lhs |-> l, rhs |-> r]
Call(ns, name, args) == [k |-> "Call", ns |-> ns, name |-> name, args |-> args]

ValOps == {"Add", "Minus", "Mul", "Div", "Mod", "And", "Or", "Xor"}
OrdOps == {"Eq", "Neq", "Lt", "Le", "Gt", "Ge"}
VarNames == {"a", "b"}

\* ---- the state an evaluation threads: the two scopes of the VarTable, what
\* the evaluation did (assignments, plugin calls, warnings), whether it is
\* still running, and the value of the last expression
EmptyMap == [n \in VarNames |-> NoValue]
Warned(st, msg) == [st EXCEPT !.log = Append(@, [e |-> "warn", what |-> msg])]
Val(st, v) == [st EXCEPT !.val = v]
\* unimplemented!(), unreachable!(), unwrap() on None, division by zero: the
\* thread panics and the evaluation is abandoned
Panics(st, why) == [st EXCEPT !.out = "panic", !.val = Unit,
                              !.log = Append(@, [e |-> "panic", what |-> why])]

\* ---- the operator tables
\* i64 `/` and `%`: truncated division and its remainder
Abs(n) == IF n < 0 THEN 0 - n ELSE n
TruncDiv(a, b) == IF (a < 0) = (b < 0) THEN Abs(a) \div Abs(b) ELSE 0 - (Abs(a) \div Abs(b))
TruncRem(a, b) == a - b * TruncDiv(a, b)
Xor32(a, b) == Or32(a, b) - And32(a, b)

\* `lhs / rhs` and `lhs % rhs` panic on rhs = 0
DivByZero(op, rhs) == op \in {"Div", "Mod"} /\ rhs = 0

\* bin_num_val (script.rs:124-135), where it does not panic
bin_num_val(lhs, op, rhs) ==
    CASE op = "Add" -> lhs + rhs
      [] op = "Minus" -> lhs - rhs
      [] op = "Mul" -> lhs * rhs
      [] op = "Div" -> TruncDiv(lhs, rhs)
      [] op = "Mod" -> TruncRem(lhs, rhs)
      [] op = "And" -> And32(lhs, rhs)
      [] op = "Or" -> Or32(lhs, rhs)
      [] op = "Xor" -> Xor32(lhs, rhs)

\* RawValue::Num(bin_num_val(lhs, op, rhs))
NumOrPanic(st, lhs, op, rhs) ==
    IF DivByZero(op, rhs) THEN Panics(st, "attempt to divide by zero")
    ELSE Val(st, Num(bin_num_val(lhs, op, rhs)))

\* a bin_bool_val that sends every operator to the numbers
bin_bool_val_numeric(st, lhs, op, rhs) ==
    NumOrPanic(st, IF lhs THEN 1 ELSE 0, op, IF rhs THEN 1 ELSE 0)

\* bin_bool_val (script.rs:111-122)
bin_bool_val(st, lhs, op, rhs) ==
    CASE op \in {"Add", "Minus", "Mul", "Div", "Mod"} ->
            NumOrPanic(st, IF lhs THEN 1 ELSE 0, op, IF rhs THEN 1 ELSE 0)
      [] op = "And" -> Val(st, Bool(lhs /\ rhs))
      [] op = "Or" -> Val(st, Bool(lhs \/ rhs))
      [] op = "Xor" -> Val(st, Bool(lhs # rhs))

RECURSIVE Repeat(_, _)
\* str::repeat
Repeat(str, n) == IF n = 0 THEN <<>> ELSE str \o Repeat(str, n - 1)
\* s.repeat(n as usize): a negative n is a count above isize::MAX
RepeatAsUsize(st, str, n) ==
    IF n < 0 /\ str # <<>> THEN Panics(st, "capacity overflow")
    ELSE Val(st, Str(IF n < 0 THEN <<>> ELSE Repeat(str, n)))

\* bin_str_val (script.rs:137-155)
bin_str_val(st, lhs, op, rhs) ==
    CASE op = "Add" -> Val(st, Str(get_str(lhs) \o get_str(rhs)))
      [] op = "Mul" ->
            (LET lt == MaxType(lhs.t, "Num")
                 rt == MaxType(rhs.t, "Num")
             IN  CASE lt = "Str" /\ rt = "Str" -> Panics(st, "not implemented")
                   [] lt = "Num" /\ rt = "Str" -> RepeatAsUsize(st, get_str(rhs), get_num(lhs))
                   [] lt = "Str" /\ rt = "Num" -> RepeatAsUsize(st, get_str(lhs), get_num(rhs))
                   [] OTHER -> Panics(st, "unreachable"))
      [] OTHER -> Panics(st, "not implemented")

\* the characters of the strings, in the order of their code points
Alphabet ==
    <<" ", "-", "0", "1", "2", "3", "4", "5", "6", "7", "8", "9",
      "a", "b", "c", "d", "e", "f", "g", "h", "i", "j", "k", "l", "m",
      "n", "o", "p", "q", "r", "s", "t", "u", "v", "w", "x", "y", "z">>
CharRank(c) == CHOOSE k \in 1..Len(Alphabet) : Alphabet[k] = c

RECURSIVE StrCmp(_, _)
\* Ord for String: -1, 0, 1
StrCmp(x, y) ==
    IF x = <<>> THEN (IF y = <<>> THEN 0 ELSE -1)
    ELSE IF y = <<>> THEN 1
    ELSE IF Head(x) = Head(y) THEN StrCmp(Tail(x), Tail(y))
    ELSE IF CharRank(Head(x)) < CharRank(Head(y)) THEN -1 ELSE 1

\* Ord of the promoted operands: -1, 0, 1
Cmp(t, lhs, rhs) ==
    CASE t = "Bool" -> get_num(Bool(get_bool(lhs))) - get_num(Bool(get_bool(rhs)))
      [] t = "Num" -> IF get_num(lhs) < get_num(rhs) THEN -1 ELSE IF get_num(lhs) = get_num(rhs) THEN 0 ELSE 1
      [] t = "Str" -> StrCmp(get_str(lhs), get_str(rhs))

\* bin_ord_logic (script.rs:176-186) on the outcome of the comparison
bin_ord_logic(c, op) ==
    CASE op = "Eq" -> c = 0
      [] op = "Neq" -> c # 0
      [] op = "Lt" -> c < 0
      [] op = "Le" -> c <= 0
      [] op = "Gt" -> c > 0
      [] op = "Ge" -> c >= 0

\* Unary (script.rs:72-81)
unary(op, x) ==
    CASE op = "Positive" -> Num(get_num(x))
      [] op = "Negative" -> Num(0 - get_num(x))
      [] op = "Not" ->
            CASE x.t = "Unit" -> Unit
              [] x.t = "Bool" -> Bool(~x.v)
              [] x.t = "Num" -> Num(0 - x.v - 1)
              [] x.t = "Str" -> Str(<<>>)

\* an assign with one scope for both kinds of Ref
assign_one_scope(st, e, val) ==
    [st EXCEPT !.vars[e.n] = val, !.val = Unit,
               !.log = Append(@, [e |-> "assign", what |-> <<e.r, e.n>>])]

\* an assign that evaluates to the assigned value
assign_returning(st, e, val) ==
    LET s1 == IF e.r = "Var" THEN [st EXCEPT !.vars[e.n] = val]
              ELSE [st EXCEPT !.locals[e.n] = val]
    IN  [s1 EXCEPT !.val = val,
                   !.log = Append(@, [e |-> "assign", what |-> <<e.r, e.n>>])]

\* assign (script.rs:188-197)
assign(st, e, val) ==
    IF e.k = "Ref"
    THEN LET s1 == IF e.r = "Var" THEN [st EXCEPT !.vars[e.n] = val]
                   ELSE [st EXCEPT !.locals[e.n] = val]
         IN  [s1 EXCEPT !.val = Unit,
                        !.log = Append(@, [e |-> "assign", what |-> <<e.r, e.n>>])]
    ELSE Panics(st, "unreachable")

\* a read that inserts the missing variable
Ref_call_inserting(st, e) ==
    LET map == IF e.r = "Var" THEN st.vars ELSE st.locals
    IN  IF map[e.n] # NoValue THEN Val(st, map[e.n])
        ELSE IF e.r = "Var" THEN Val([st EXCEPT !.vars[e.n] = Unit], Unit)
        ELSE Val([st EXCEPT !.locals[e.n] = Unit], Unit)

\* impl Callable for Ref (script.rs:223-238)
Ref_call(st, e) ==
    LET map == IF e.r = "Var" THEN st.vars ELSE st.locals
    IN  IF e.n \in DOMAIN map /\ map[e.n] # NoValue
        THEN Val(st, map[e.n])
        ELSE Val(Warned(st, "Cannot find variable"), Unit)

\* ---- the script plugin `random` (plugins/random/src/lib.rs) and the
\* modules the Runtime of the interpreter holds
ScriptModules == {"random"}
Exports(ns) == IF ns = "random" THEN {"plugin_type", "rnd"} ELSE {}

\* what a plugin call meets: the export runs, traps, or returns bytes that do
\* not deserialize; and the number the random engine draws
Oracles == {[out |-> "ok", r |-> r] : r \in 0..3} \cup {[out |-> x, r |-> 0] : x \in {"trap", "bad"}}

\* the module panicked: the export traps
Trap == [t |-> "Trap", v |-> 0]

\* rng.gen_range(lo..hi): a number of the range; panics on an empty range
gen_range(lo, hi, r) == lo + (r % (hi - lo))

\* an rnd over ranges that include their upper end
rnd_inclusive(args, o) ==
    CASE Len(args) = 0 -> Num(o.r)
      [] Len(args) = 1 ->
            (IF get_num(args[1]) <= 0 THEN Trap
             ELSE Num(gen_range(0, get_num(args[1]) + 1, o.r)))
      [] OTHER ->
            IF get_num(args[1]) >= get_num(args[2]) THEN Trap
            ELSE Num(gen_range(get_num(args[1]), get_num(args[2]) + 1, o.r))

\* rnd (plugins/random/src/lib.rs:15-28): Trap when the module panics
rnd(args, o) ==
    CASE Len(args) = 0 -> Num(o.r)
      [] Len(args) = 1 ->
            (IF get_num(args[1]) <= 0 THEN Trap
             ELSE Num(gen_range(0, get_num(args[1]), o.r)))
      [] OTHER ->
            IF get_num(args[1]) >= get_num(args[2]) THEN Trap
            ELSE Num(gen_range(get_num(args[1]), get_num(args[2]), o.r))

\* Host::dispatch_method (plugin.rs:175-177) through Host::call (plugin.rs:152-172)
\* and HostInstance::get_typed_func (plugin.rs:64-78), unwrapped by
\* unwrap_or_default_log_with (script.rs:215-217)
dispatch_method(st, ns, name, args, o) ==
    LET s1 == [st EXCEPT !.log = Append(@, [e |-> "call", what |-> <<ns, name>>])]
        res == IF name = "rnd" THEN rnd(args, o) ELSE Unit
    IN  IF name \notin Exports(ns) THEN Panics(s1, "unwrap on None")
        ELSE IF o.out # "ok" \/ res.t = "Trap" THEN Val(Warned(s1, "Calling error"), Unit)
        ELSE Val(s1, res)

RECURSIVE Expr_call(_, _, _)
RECURSIVE EvalArgs(_, _, _, _)

\* args.iter().map(|e| e.call(ctx)).collect() (script.rs:211): the state after
\* the arguments, with their values in .val
EvalArgs(st, args, o, acc) ==
    IF st.out # "ok" THEN st
    ELSE IF args = <<>> THEN Val(st, acc)
    ELSE LET s1 == Expr_call(st, Head(args), o)
         IN  EvalArgs(s1, Tail(args), o, Append(acc, s1.val))

\* impl Callable for Option<&Expr> (script.rs:47-54) on args.get(k)
ArgCall(st, args, k, o) ==
    IF k <= Len(args) THEN Expr_call(st, args[k], o) ELSE Val(st, Unit)

\* bin_val (script.rs:99-109)
bin_val(st, lhs, op, rhs, o) ==
    LET s1 == Expr_call(st, lhs, o)
        s2 == Expr_call(s1, rhs, o)
        l == s1.val
        r == s2.val
        t == MaxType(l.t, r.t)
    IN  IF s2.out # "ok" THEN s2
        ELSE CASE t = "Unit" -> Val(s2, Unit)
               [] t = "Bool" -> bin_bool_val(s2, get_bool(l), op, get_bool(r))
               [] t = "Num" -> NumOrPanic(s2, get_num(l), op, get_num(r))
               [] t = "Str" -> bin_str_val(s2, l, op, r)

\* a bin_logic that evaluates both operands of And and Or
bin_logic_eager(st, lhs, op, rhs, o) ==
    LET s1 == Expr_call(st, lhs, o)
        s2 == Expr_call(s1, rhs, o)
        t == MaxType(s1.val.t, s2.val.t)
    IN  IF s2.out # "ok" THEN s2
        ELSE IF op = "And" THEN Val(s2, Bool(get_bool(s1.val) /\ get_bool(s2.val)))
        ELSE IF op = "Or" THEN Val(s2, Bool(get_bool(s1.val) \/ get_bool(s2.val)))
        ELSE IF t = "Unit" THEN Val(s2, Bool(FALSE))
        ELSE Val(s2, Bool(bin_ord_logic(Cmp(t, s1.val, s2.val), op)))

\* bin_logic (script.rs:157-174)
bin_logic(st, lhs, op, rhs, o) ==
    LET s1 == Expr_call(st, lhs, o)
        s2 == Expr_call(s1, rhs, o)
        t == MaxType(s1.val.t, s2.val.t)
    IN  IF s1.out # "ok" THEN s1
        ELSE IF op = "And" THEN
            (IF get_bool(s1.val)
             THEN (IF s2.out # "ok" THEN s2 ELSE Val(s2, Bool(get_bool(s2.val))))
             ELSE Val(s1, Bool(FALSE)))
        ELSE IF op = "Or" THEN
            (IF get_bool(s1.val)
             THEN Val(s1, Bool(TRUE))
             ELSE (IF s2.out # "ok" THEN s2 ELSE Val(s2, Bool(get_bool(s2.val)))))
        ELSE IF s2.out # "ok" THEN s2
        ELSE IF t = "Unit" THEN Val(s2, Bool(FALSE))
        ELSE Val(s2, Bool(bin_ord_logic(Cmp(t, s1.val, s2.val), op)))

\* an `if` that evaluates both branches before it selects one
call_eager(st, ns, name, args, o) ==
    LET s1 == ArgCall(st, args, 1, o)
        s2 == ArgCall(s1, args, 2, o)
        s3 == ArgCall(s2, args, 3, o)
    IN  IF get_bool(s1.val) THEN Val(s3, s2.val) ELSE s3

\* call (script.rs:199-221)
call(st, ns, name, args, o) ==
    IF ns = ""
    THEN IF name = "if"
         THEN LET s1 == ArgCall(st, args, 1, o)
              IN  IF s1.out # "ok" THEN s1
                  ELSE IF get_bool(s1.val) THEN ArgCall(s1, args, 2, o)
                  ELSE ArgCall(s1, args, 3, o)
         ELSE Panics(st, "not implemented: intrinstics")
    ELSE LET s1 == EvalArgs(st, args, o, <<>>)
         IN  IF s1.out # "ok" THEN s1
             ELSE IF ns \in ScriptModules THEN dispatch_method(s1, ns, name, s1.val, o)
             ELSE Val(Warned(s1, "Cannot find namespace"), Unit)

\* impl Callable for Expr (script.rs:67-97)
Expr_call(st, e, o) ==
    IF st.out # "ok" THEN st
    ELSE CASE e.k = "Ref" -> Ref_call(st, e)
           [] e.k = "Const" -> Val(st, e.v)
           [] e.k = "Unary" ->
                (LET s1 == Expr_call(st, e.e, o)
                 IN  IF s1.out # "ok" THEN s1 ELSE Val(s1, unary(e.op, s1.val)))
           [] e.k = "Binary" ->
                (CASE e.c = "Val" -> bin_val(st, e.lhs, e.op, e.rhs, o)
                   [] e.c = "Logic" -> bin_logic(st, e.lhs, e.op, e.rhs, o)
                   [] e.c = "Assign" ->
                         (LET s1 == Expr_call(st, e.rhs, o)
                          IN  IF s1.out # "ok" THEN s1 ELSE assign(s1, e.lhs, s1.val))
                   [] e.c = "Inplace" ->
                         (LET s1 == bin_val(st, e.lhs, e.op, e.rhs, o)
                          IN  IF s1.out # "ok" THEN s1 ELSE assign(s1, e.lhs, s1.val)))
           [] e.k = "Call" -> call(st, e.ns, e.name, e.args, o)

RECURSIVE EvalSeq(_, _, _)
\* for expr in &self.0 { res = expr.call(ctx) } (script.rs:60-62)
EvalSeq(st, exprs, o) ==
    IF st.out # "ok" \/ exprs = <<>> THEN st
    ELSE EvalSeq(Expr_call(st, Head(exprs), o), Tail(exprs), o)

\* a Program that keeps the temp scope of the program before it
Program_call_keeping(st, prog, o) ==
    EvalSeq([st EXCEPT !.val = Unit], prog, o)

\* impl Callable for Program (script.rs:56-65)
Program_call(st, prog, o) ==
    EvalSeq([st EXCEPT !.vars = EmptyMap, !.val = Unit], prog, o)

\* ---- Text (ayaka_script): chunks Str(s) and commands
SubStr(str) == [k |-> "Str", s |-> str]
CmdCtx(n) == [k |-> "Ctx", s |-> <<n>>]
CmdCharacter == [k |-> "Character", s |-> <<>>]
CmdRes == [k |-> "Res", s |-> <<>>]
CmdOther == [k |-> "Other", s |-> <<>>]

IsSpace(c) == c = " "
RECURSIVE TrimStart(_)
TrimStart(str) == IF str # <<>> /\ IsSpace(Head(str)) THEN TrimStart(Tail(str)) ELSE str
RECURSIVE TrimEnd(_)
TrimEnd(str) ==
    IF str # <<>> /\ IsSpace(str[Len(str)]) THEN TrimEnd(SubSeq(str, 1, Len(str) - 1)) ELSE str
\* a trim of the start only
TrimStartOnly(str) == TrimStart(str)
\* str::trim
Trim(str) == TrimEnd(TrimStart(str))

RECURSIVE TextChunks(_, _, _)
\* for line in &self.0 { .. str.push_str(..) } (script.rs:243-262): the state
\* and the string after the chunks
TextChunks(st, text, str) ==
    IF text = <<>> THEN Val(st, Str(str))
    ELSE LET c == Head(text) IN
         CASE c.k = "Str" -> TextChunks(st, Tail(text), str \o c.s)
           [] c.k = "Character" -> TextChunks(st, Tail(text), str \o get_str(Unit))
           [] c.k \in {"Res", "Other"} ->
                TextChunks(Warned(st, "Unsupported command in text."), Tail(text), str \o get_str(Unit))
           [] c.k = "Ctx" ->
                IF st.locals[c.s[1]] # NoValue
                THEN TextChunks(st, Tail(text), str \o get_str(st.locals[c.s[1]]))
                ELSE TextChunks(Warned(st, "Cannot find variable"), Tail(text), str \o get_str(Unit))

\* impl Callable for Text (script.rs:240-265)
Text_call(st, text) ==
    LET s1 == TextChunks(st, text, <<>>)
    IN  Val(s1, Str(Trim(s1.val.v)))

\* ---- the scripts that are evaluated
ConstSamples ==
    <<Unit, Bool(TRUE), Bool(FALSE), Num(0), Num(2), Num(-1), Str(<<>>), Str(<<"x">>)>>
Sodayo == <<"s", "o", "d", "a", "y", "o">>
SumOfTest ==
    BinVal(BinVal(BinVal(BinVal(BinVal(Const(Num(1)), "Add", Const(Num(1))), "Add", Const(Num(4))),
                         "Add", Const(Num(5))), "Add", Const(Num(1))), "Add", Const(Num(4)))

\* the programs of the tests (script.rs:291-384, tests/runtime.rs:47-114) and
\* programs with side effects in arguments and branches
FixedPrograms ==
    << <<Assign(Var("a"), Const(Num(0))), Inplace(Var("a"), "Add", Const(Num(1))),
         Inplace(Var("a"), "Add", Var("a")), Var("a")>>,
       <<Var("a")>>,
       <<Assign(Ctx("a"), Const(Num(0))), Inplace(Ctx("a"), "Add", Const(Num(1))),
         Inplace(Ctx("a"), "Add", Var("a")), Ctx("a")>>,
       <<Ctx("a")>>,
       <<>>,
       <<Call("", "if", <<BinLogic(SumOfTest, "Eq", Const(Num(16))), Const(Str(Sodayo)), Const(Unit)>>)>>,
       <<Call("", "if", <<BinLogic(BinVal(Const(Num(1)), "Add", Const(Num(1))), "Eq", Const(Num(3))),
                          Const(Str(<<"x">>))>>)>>,
       <<Call("", "if", <<Const(Bool(TRUE)), Const(Str(Sodayo))>>)>>,
       <<Call("", "if", <<Call("random", "rnd", <<Const(Num(2))>>),
                          Assign(Ctx("b"), Const(Num(1))), Assign(Ctx("b"), Const(Num(2)))>>)>>,
       <<Call("", "if", <<Ctx("b"), Call("random", "rnd", <<Const(Num(1))>>),
                          Assign(Var("b"), Const(Num(1)))>>), Var("b")>>,
       <<Call("random", "rnd", <<Const(Num(10))>>)>>,
       <<Call("random", "rnd", <<Const(Num(3))>>)>>,
       <<Call("random", "rnd", <<Const(Num(1)), Const(Num(3))>>)>>,
       <<Call("random", "rnd", <<Const(Num(-1)), Const(Num(2))>>)>>,
       <<Assign(Var("b"), Call("random", "nope", <<Const(Num(1))>>)),
         Assign(Ctx("a"), Const(Num(7)))>>,
       <<Assign(Var("b"), Call("nomod", "f", <<Assign(Ctx("b"), Const(Num(3)))>>)),
         Assign(Ctx("a"), Const(Num(7)))>>,
       <<Assign(Var("b"), Call("random", "rnd", <<Assign(Ctx("b"), Const(Num(3)))>>)),
         Assign(Ctx("a"), Const(Num(7)))>>,
       <<Assign(Var("b"), Call("random", "rnd", <<Const(Num(2))>>)),
         Assign(Ctx("a"), Const(Num(7)))>>,
       <<Call("", "while", <<Const(Bool(TRUE))>>)>> >>

\* a program is named by its place among the fixed programs, or by the
\* operator and the constants of `a = l op r; $b = 1` (bin),
\* `a = l op r; b = l != r` (cmp) and `a = op l; $b = 1` (un), or by the
\* operator, the constant and the right operand of
\* `a = if($a = 1, ~, l) op rhs` (logic), or by the scope of x, the operator
\* and the constants of `x = l; x op= r` and, without an operator, `x = l; x = r`
\* (asg)
UnaryOps == {"Positive", "Negative", "Not"}
ShortOps == {"And", "Or"}
\* right operands with an effect: a record assignment, a temp assignment and
\* a plugin call
EffectSamples ==
    <<Assign(Ctx("b"), Const(Num(2))), Assign(Var("b"), Const(Num(2))),
      Call("random", "rnd", <<Const(Num(1)), Const(Num(3))>>)>>
\* an operand that assigns $a and has the value of the constant
Scopes == <<"Var", "Ctx">>
RefOf(scope, n) == [k |-> "Ref", r |-> scope, n |-> n]
Effectful(c) == Call("", "if", <<Assign(Ctx("a"), Const(Num(1))), Const(Unit), Const(c)>>)
ProgramIds ==
    [k : {"fixed"}, i : 1..Len(FixedPrograms), op : {""}, l : {1}, r : {1}]
    \cup [k : {"bin"}, i : {0}, op : ValOps, l : 1..Len(ConstSamples), r : 1..Len(ConstSamples)]
    \cup [k : {"cmp"}, i : {0}, op : OrdOps, l : 1..Len(ConstSamples), r : 1..Len(ConstSamples)]
    \cup [k : {"un"}, i : {0}, op : UnaryOps, l : 1..Len(ConstSamples), r : {1}]
    \cup [k : {"logic"}, i : {0}, op : ShortOps, l : 1..Len(ConstSamples), r : 1..Len(EffectSamples)]
    \cup [k : {"asg"}, i : 1..Len(Scopes), op : ValOps \cup {""}, l : 1..Len(ConstSamples),
           r : 1..Len(ConstSamples)]
ProgramOf(id) ==
    IF id.k = "fixed" THEN FixedPrograms[id.i]
    ELSE IF id.k = "cmp" THEN
        <<Assign(Var("a"), BinLogic(Const(ConstSamples[id.l]), id.op, Const(ConstSamples[id.r]))),
          Assign(Var("b"), BinLogic(Const(ConstSamples[id.l]), "Neq", Const(ConstSamples[id.r])))>>
    ELSE IF id.k = "asg" THEN
        <<Assign(RefOf(Scopes[id.i], "a"), Const(ConstSamples[id.l])),
          IF id.op = "" THEN Assign(RefOf(Scopes[id.i], "a"), Const(ConstSamples[id.r]))
          ELSE Inplace(RefOf(Scopes[id.i], "a"), id.op, Const(ConstSamples[id.r]))>>
    ELSE IF id.k = "logic" THEN
        <<Assign(Var("a"), BinLogic(Effectful(ConstSamples[id.l]), id.op, EffectSamples[id.r]))>>
    ELSE IF id.k = "un" THEN
        <<Assign(Var("a"), Unary(id.op, Const(ConstSamples[id.l]))),
          Assign(Ctx("b"), Const(Num(1)))>>
    ELSE <<Assign(Var("a"), BinVal(Const(ConstSamples[id.l]), id.op, Const(ConstSamples[id.r]))),
           Assign(Ctx("b"), Const(Num(1)))>>

TextChunkSamples ==
    {SubStr(<<" ">>), SubStr(<<"x">>), SubStr(<<" ", "y", " ">>), CmdCtx("a"), CmdCtx("b"),
     CmdCharacter, CmdRes, CmdOther}
Texts == {<<>>} \cup [1..1 -> TextChunkSamples] \cup [1..2 -> TextChunkSamples]

RECURSIVE CallsPlugin(_)
\* the expression holds a call into a module
CallsPlugin(e) ==
    CASE e.k = "Call" -> e.ns # "" \/ \E k \in 1..Len(e.args) : CallsPlugin(e.args[k])
      [] e.k = "Unary" -> CallsPlugin(e.e)
      [] e.k = "Binary" -> CallsPlugin(e.lhs) \/ CallsPlugin(e.rhs)
      [] OTHER -> FALSE
\* what the plugin calls of a program can meet
OraclesFor(prog) ==
    IF \E k \in 1..Len(prog) : CallsPlugin(prog[k]) THEN Oracles ELSE {[out |-> "ok", r |-> 0]}

\* ---- evaluations on one VarTable
NoPick == [k |-> "none", i |-> 0, op |-> "", l |-> 1, r |-> 1]
NoEval == [kind |-> "none"]
NoOracle == [out |-> "ok", r |-> 0]

\* VarTable::new(runtime, locals) (script.rs:21-27) on the locals of a record
LocalsSamples ==
    {EmptyMap,
     [n \in VarNames |-> IF n = "a" THEN Num(5) ELSE Str(<<" ", "z">>)],
     [n \in VarNames |-> IF n = "a" THEN NoValue ELSE Bool(TRUE)]}

IdleScript ==
    /\ sc_locals = EmptyMap
    /\ sc_vars = EmptyMap
    /\ sc_out = "idle"
    /\ sc_pick = NoPick
    /\ sc_last = NoEval

InitScript ==
    /\ sc_locals \in LocalsSamples
    /\ sc_vars = EmptyMap
    /\ sc_out = "ok"
    /\ sc_pick = NoPick
    /\ sc_last = NoEval

InitOps ==
    /\ sc_locals \in LocalsSamples
    /\ sc_vars = EmptyMap
    /\ sc_out = "ok"
    /\ sc_pick \in {id \in ProgramIds : id.k # "fixed"}
    /\ sc_last = NoEval

Table == [locals |-> sc_locals, vars |-> sc_vars, log |-> <<>>, out |-> "ok", val |-> Unit]

\* the VarTable and the record of the evaluation after it
Evaluated(kind, what, o, s1) ==
    /\ sc_locals' = s1.locals
    /\ sc_vars' = s1.vars
    /\ sc_out' = s1.out
    /\ sc_last' = [kind |-> kind, what |-> what, o |-> o, val |-> s1.val, log |-> s1.log,
                   locals0 |-> sc_locals, vars0 |-> sc_vars]

\* ctx.call(&program) (script.rs:29-32) on one of the fixed programs
call_Program ==
    /\ sc_out = "ok"
    /\ sc_pick = NoPick
    /\ \E id \in {x \in ProgramIds : x.k = "fixed"} : \E o \in OraclesFor(ProgramOf(id)) :
          Evaluated("program", id, o, Program_call(Table, ProgramOf(id), o))
    /\ UNCHANGED <<sc_pick, notScript>>

\* ctx.call(&text) (script.rs:29-32)
call_Text ==
    /\ sc_out = "ok"
    /\ sc_pick = NoPick
    /\ \E text \in Texts : Evaluated("text", text, NoOracle, Text_call(Table, text))
    /\ UNCHANGED <<sc_pick, notScript>>

\* ctx.call(&program) on the drawn operator expression
call_Operator ==
    /\ sc_out = "ok"
    /\ sc_pick # NoPick
    /\ sc_last = NoEval
    /\ Evaluated("program", sc_pick, NoOracle, Program_call(Table, ProgramOf(sc_pick), NoOracle))
    /\ UNCHANGED <<sc_pick, notScript>>

NextScript == call_Program \/ call_Text
NextOps == call_Operator

\* ======================================================================
\* The locale resolver (utils/ayaka-runtime/src/config.rs:63-110)
\* ======================================================================
Locales == {"en", "en-GB", "en-US", "ja"}
NoLocale == ""
\* the language of a locale tag
Lang(l) == IF l = "ja" THEN "ja" ELSE "en"
Tags == {"a", "b"}

\* Locale::choose_from(keys): the key itself, else the key of its language,
\* else the first key of the same language; NoLocale for None
choose_from(loc, keys) ==
    IF loc \in keys THEN loc
    ELSE IF Lang(loc) \in keys THEN Lang(loc)
    ELSE IF "en-GB" \in keys /\ Lang(loc) = "en" THEN "en-GB"
    ELSE IF "en-US" \in keys /\ Lang(loc) = "en" THEN "en-US"
    ELSE NoLocale

\* Game::choose_from_keys (config.rs:64-66)
choose_from_keys(game, loc, map) ==
    LET c == choose_from(loc, DOMAIN map)
    IN  IF c = NoLocale THEN game.base_lang ELSE c

\* an Option of a looked-up entry: the key and the tag it was found under
NoEntry == [key |-> NoLocale, tag |-> ""]
Entry(key, tag) == [key |-> key, tag |-> tag]

\* Game::find_para (config.rs:68-77)
find_para(game, loc, tag) ==
    IF loc \in DOMAIN game.paras /\ tag \in game.paras[loc] THEN Entry(loc, tag) ELSE NoEntry

\* Fallback::new(primary, fallback)
Fallback(primary, fallback) == [primary |-> primary, fallback |-> fallback]

\* a find_para_fallback that looks the chosen key up whatever the base key is
find_para_fallback_both(game, loc, tag) ==
    LET key == choose_from_keys(game, loc, game.paras)
        base_key == choose_from_keys(game, game.base_lang, game.paras)
    IN  Fallback(find_para(game, key, tag), find_para(game, base_key, tag))

\* Game::find_para_fallback (config.rs:80-91)
find_para_fallback(game, loc, tag) ==
    LET key == choose_from_keys(game, loc, game.paras)
        base_key == choose_from_keys(game, game.base_lang, game.paras)
    IN  Fallback(IF key = base_key THEN NoEntry ELSE find_para(game, key, tag),
                 find_para(game, base_key, tag))

\* Game::find_res (config.rs:93-95)
find_res(game, loc) ==
    IF loc \in DOMAIN game.res THEN Entry(loc, "") ELSE NoEntry

\* Game::find_res_fallback (config.rs:98-109)
find_res_fallback(game, loc) ==
    LET key == choose_from_keys(game, loc, game.res)
        base_key == choose_from_keys(game, game.base_lang, game.res)
    IN  Fallback(IF key = base_key THEN NoEntry ELSE find_res(game, key),
                 find_res(game, base_key))

\* the maps of a Game: the paragraphs of a locale by their tags, the resources
\* of a locale by the locale
ParaMaps == UNION {[K -> SUBSET {"a"}] : K \in SUBSET Locales}
ResMaps == UNION {[K -> {"r"}] : K \in SUBSET Locales}

NoLookup == [fn |-> "none"]
IdleLocale ==
    /\ lc_game = [base_lang |-> "en", paras |-> <<>>, res |-> <<>>]
    /\ lc_loc = NoLocale
    /\ lc_out = NoLookup

InitLocale ==
    /\ lc_game \in [base_lang : Locales, paras : ParaMaps, res : ResMaps]
    /\ lc_loc \in Locales
    /\ lc_out = NoLookup

\* game.find_para_fallback(loc, tag)
call_find_para_fallback ==
    /\ lc_out = NoLookup
    /\ lc_loc # NoLocale
    /\ \E tag \in Tags :
          lc_out' = [fn |-> "para", tag |-> tag,
                     key |-> choose_from_keys(lc_game, lc_loc, lc_game.paras),
                     res |-> find_para_fallback(lc_game, lc_loc, tag)]
    /\ UNCHANGED <<lc_game, lc_loc, notLocale>>

\* game.find_res_fallback(loc)
call_find_res_fallback ==
    /\ lc_out = NoLookup
    /\ lc_loc # NoLocale
    /\ lc_out' = [fn |-> "res", tag |-> "",
                  key |-> choose_from_keys(lc_game, lc_loc, lc_game.res),
                  res |-> find_res_fallback(lc_game, lc_loc)]
    /\ UNCHANGED <<lc_game, lc_loc, notLocale>>

NextLocale == call_find_para_fallback \/ call_find_res_fallback

\* ======================================================================
\* A host import called by a module
\* (utils/ayaka-runtime/src/plugin.rs:238-249,
\*  utils/ayaka-plugin-wasmedge/src/lib.rs:142-171)
\* ======================================================================
\* the lengths and the pointers a module passes, the lengths of the values a
\* handler returns and the pointers __abi_alloc returns
ImportLens == {0, 1, 2}
ImportPtrs == {16, 1024}
ValueLens == {0, 1, 2}
AllocPtrs == {8, 65536}

\* what the native handler does with the decoded parameters: the closures of
\* Runtime::import return (), the handlers wrap_raw is given return the bytes
\* of a value (by their length) or fail
HandlerOutcomes(backend) ==
    IF backend = "wasmi" THEN {[t |-> "unit", n |-> 0]}
    ELSE {[t |-> "fail", n |-> 0]} \cup {[t |-> "value", n |-> n] : n \in ValueLens}

NoReturn == [t |-> "none", w |-> NoWord]
Traps == [t |-> "trap", w |-> NoWord]

IdleImport ==
    /\ im_backend = "wasmi"
    /\ im_arg = [len |-> 0, data |-> 0, decodes |-> FALSE, h |-> [t |-> "unit", n |-> 0]]
    /\ im_pc = "idle"
    /\ im_handled = 0
    /\ im_log = <<>>
    /\ im_ret = NoReturn

\* the module calls the import with (len, data)
InitImport ==
    /\ im_backend \in Backends
    /\ im_arg \in {[len |-> l, data |-> d, decodes |-> ok, h |-> h] :
                    l \in ImportLens, d \in ImportPtrs, ok \in BOOLEAN,
                    h \in HandlerOutcomes("wasmi") \cup HandlerOutcomes("wasmedge")}
    /\ im_arg.h \in HandlerOutcomes(im_backend)
    /\ im_pc = "start"
    /\ im_handled = 0
    /\ im_log = <<>>
    /\ im_ret = NoReturn

ImAt(pc) == im_pc' = pc /\ im_ret' = im_ret
ImReturns(r) == im_pc' = "returned" /\ im_ret' = r
ImDid(ev) == im_log' = Append(im_log, ev)
\* mem_slice(store, memory, start, len)
ReadAt(start, len) == [e |-> "read", ptr |-> start, n |-> len]
AllocOf(n, ptr) == [e |-> "alloc", ptr |-> ptr, n |-> n]
WriteAt(ptr, n) == [e |-> "write", ptr |-> ptr, n |-> n]
NoPtr == -1

\* ---- Runtime::import (plugin.rs:238-249)
Runtime_import ==
    /\ im_backend = "wasmi"
    /\ \/ /\ im_pc = "start"            \* let data = mem_slice(&store, &memory, data, len)
          /\ ImAt("decode") /\ ImDid(ReadAt(im_arg.data, im_arg.len))
          /\ UNCHANGED im_handled
       \/ /\ im_pc = "decode"           \* rmp_serde::from_slice(data).map_err(..)?
          /\ IF im_arg.decodes THEN ImAt("handler") ELSE ImReturns(Traps)
          /\ UNCHANGED <<im_handled, im_log>>
       \/ /\ im_pc = "handler"          \* f.call_once(data); Ok(())
          /\ im_handled' = im_handled + 1
          /\ ImReturns([t |-> "ok", w |-> NoWord])
          /\ UNCHANGED im_log
    /\ UNCHANGED <<im_backend, im_arg, notImport>>

\* the closure wrap_raw is given: it reads len bytes at the pointer, decodes
\* them, and invokes the handler on the parameters
WrappedHandler ==
    /\ ImDid(ReadAt(im_arg.data, im_arg.len))
    /\ im_handled' = IF im_arg.decodes THEN im_handled + 1 ELSE im_handled

\* a wrap_raw that allocates the buffer of the result whatever the closure returned
wrap_raw_allocating ==
    /\ im_backend = "wasmedge"
    /\ \/ /\ im_pc = "start"
          /\ WrappedHandler
          /\ ImAt("alloc")
       \/ /\ im_pc = "alloc"
          /\ \/ \E ptr \in AllocPtrs : ImAt("write") /\ ImDid(AllocOf(im_arg.h.n, ptr))
             \/ ImReturns(Traps) /\ ImDid(AllocOf(im_arg.h.n, NoPtr))
          /\ UNCHANGED im_handled
       \/ /\ im_pc = "write"
          /\ LET ptr == im_log[Len(im_log)].ptr
             IN  /\ ImDid(WriteAt(ptr, im_arg.h.n))
                 /\ ImReturns([t |-> "word", w |-> wrap_raw_pack(im_arg.h.n, ptr)])
          /\ UNCHANGED im_handled
    /\ UNCHANGED <<im_backend, im_arg, notImport>>

\* ---- WasmEdgeLinker::wrap_raw (lib.rs:142-171): the closure given to Func::wrap
wrap_raw ==
    /\ im_backend = "wasmedge"
    /\ \/ /\ im_pc = "start"            \* f(handle, data, len)?
          /\ WrappedHandler
          /\ IF im_arg.decodes /\ im_arg.h.t = "value" THEN ImAt("alloc") ELSE ImReturns(Traps)
       \/ /\ im_pc = "alloc"            \* abi_alloc.call(.., data.len() as i32)?
          /\ \/ \E ptr \in AllocPtrs : ImAt("write") /\ ImDid(AllocOf(im_arg.h.n, ptr))
             \/ ImReturns(Traps) /\ ImDid(AllocOf(im_arg.h.n, NoPtr))
          /\ UNCHANGED im_handled
       \/ /\ im_pc = "write"            \* mem_slice_mut(.., ptr, len).copy_from_slice(&data); Ok(..)
          /\ LET ptr == im_log[Len(im_log)].ptr
             IN  /\ ImDid(WriteAt(ptr, im_arg.h.n))
                 /\ ImReturns([t |-> "word", w |-> wrap_raw_pack(im_arg.h.n, ptr)])
          /\ UNCHANGED im_handled
    /\ UNCHANGED <<im_backend, im_arg, notImport>>

NextImport == Runtime_import \/ wrap_raw

\* ======================================================================
\* Specifications
\* ======================================================================
InitVM == StorageInit /\ IdleTasks /\ IdleOpen /\ IdleLoad /\ IdleCall /\ IdlePack /\ IdleScript /\ IdleLocale /\ IdlePlay /\ IdleImport
SpecVM == InitVM /\ [][NextVM]_vars

InitLoadOnly == InitLoad /\ context = NoContext /\ records = <<>> /\ action = NoAction
                /\ IdleTasks /\ IdleOpen /\ IdleCall /\ IdlePack /\ IdleScript /\ IdleLocale /\ IdlePlay /\ IdleImport
SpecLoad == InitLoadOnly /\ [][NextLoad]_vars

InitOpenOnly == InitOpen /\ IdleCall /\ IdlePack /\ IdleScript /\ IdleLocale /\ IdlePlay /\ IdleImport
SpecOpen == InitOpenOnly /\ [][NextOpen]_vars

InitCallOnly == InitCall /\ context = NoContext /\ records = <<>> /\ action = NoAction
                /\ IdleTasks /\ IdleOpen /\ IdleLoad /\ IdlePack /\ IdleScript /\ IdleLocale /\ IdlePlay /\ IdleImport
SpecCall == InitCallOnly /\ [][NextCall]_vars

InitPackOnly == InitPack /\ context = NoContext /\ records = <<>> /\ action = NoAction
                /\ IdleTasks /\ IdleOpen /\ IdleLoad /\ IdleCall /\ IdleScript /\ IdleLocale /\ IdlePlay /\ IdleImport
SpecPack == InitPackOnly /\ [][NextPack]_vars

NotScript == context = NoContext /\ records = <<>> /\ action = NoAction
             /\ IdleTasks /\ IdleOpen /\ IdleLoad /\ IdleCall /\ IdlePack
InitScriptOnly == InitScript /\ NotScript /\ IdleLocale /\ IdlePlay /\ IdleImport
SpecScript == InitScriptOnly /\ [][NextScript]_vars
InitOpsOnly == InitOps /\ NotScript /\ IdleLocale /\ IdlePlay /\ IdleImport
SpecOps == InitOpsOnly /\ [][NextOps]_vars

InitLocaleOnly == InitLocale /\ NotScript /\ IdleScript /\ IdlePlay /\ IdleImport
SpecLocale == InitLocaleOnly /\ [][NextLocale]_vars

InitPlay == StorageInit /\ IdleTasks /\ IdlePlay /\ IdleImport
            /\ IdleOpen /\ IdleLoad /\ IdleCall /\ IdlePack /\ IdleScript /\ IdleLocale
SpecPlay == InitPlay /\ [][NextPlay]_vars

InitImportOnly == InitImport /\ NotScript /\ IdleScript /\ IdleLocale /\ IdlePlay
SpecImport == InitImportOnly /\ [][NextImport]_vars

\* ======================================================================
\* Claims: the command surface
\* ======================================================================
LockRank(l) == CASE l = "context" -> 1 [] l = "records" -> 2 [] l = "action" -> 3 [] OTHER -> 0

\* p waits for a lock another task holds
Blocked(p) == WaitsFor(p) \in Locks /\ lk[WaitsFor(p)] \notin {0, p}

\* C1: every command acquires its locks in the order engine -> records -> action:
\* no task requests a lock while it holds one that comes later in the order.
C1_LockOrder ==
    \A p \in Procs :
        WaitsFor(p) \in Locks =>
            \A h \in Held(p) : LockRank(h) < LockRank(WaitsFor(p))

\* C2: no reachable state is a deadlock: a set of pending commands each of
\* which waits for a lock that another command of the set holds.
C2_NoDeadlock ==
    ~ \E D \in SUBSET Procs :
        /\ D # {}
        /\ \A p \in D : Blocked(p) /\ lk[WaitsFor(p)] \in D

\* ======================================================================
\* Claims: open_game
\* ======================================================================
EventTags == [k \in 1..Len(og_events) |-> og_events[k].t]
HasEvent(t) == \E k \in 1..Len(og_events) : og_events[k].t = t
LateStages == {"LoadSettings", "LoadGlobalRecords", "LoadRecords", "Loaded"}

\* C3: a successful open_game has emitted LoadProfile, CreateRuntime, LoadPlugin*,
\* LoadSettings, LoadGlobalRecords, LoadRecords, Loaded in this order, each stage
\* but LoadPlugin once and Loaded last; Loaded is never in the emitted events
\* before the records and the engine are installed in the storage.
C3_OpenStages ==
    /\ og_pc = "done" =>
        LET n == Len(og_events) IN
        /\ n >= 6
        /\ EventTags[1] = "LoadProfile"
        /\ EventTags[2] = "CreateRuntime"
        /\ \A k \in 3..(n - 4) : EventTags[k] = "LoadPlugin"
        /\ EventTags[n - 3] = "LoadSettings"
        /\ EventTags[n - 2] = "LoadGlobalRecords"
        /\ EventTags[n - 1] = "LoadRecords"
        /\ EventTags[n] = "Loaded"
    /\ HasEvent("Loaded") =>
        /\ og_log = <<"records", "engine", "Loaded">>
        /\ context.some /\ context = og_ctx

C3_Witness ==
    /\ og_pc = "done"
    /\ Len(og_events) = 8
    /\ context.some

C5_LoadDefaults ==
    /\ og_fail # {} /\ og_pc = "failed" => og_err = "emit"
    /\ "settings" \in og_fail => og_ctx.settings = "default"
    /\ "global" \in og_fail => og_ctx.global = "default"
    /\ "records" \in og_fail => records = <<>>
    /\ og_pc = "done" =>
        /\ context.some /\ HasEvent("Loaded")
        /\ context.settings = (IF "settings" \in og_fail THEN "default" ELSE "loaded")
        /\ context.global = (IF "global" \in og_fail THEN "default" ELSE "loaded")
        /\ "records" \notin og_fail => records \in DiskRecords

C5_Witness ==
    /\ og_pc = "done"
    /\ og_fail = {"settings", "global", "records"}
    /\ context.settings = "default" /\ context.global = "default" /\ records = <<>>
    /\ og_old[2] # <<>>
    /\ HasEvent("Loaded")

\* ======================================================================
\* Claims: Runtime::load
\* ======================================================================
Max(S) == CHOOSE x \in S : \A y \in S : y <= x
\* the plugin type of the module loaded at index k (1-based)
LoadedType(k) == ld_ptype[ld_paths[k]]
LoadedIdx == 1..ld_i
\* the last loaded module that lists the command (0 = none)
LastText(c) == LET L == {k \in LoadedIdx : c \in LoadedType(k).text} IN IF L = {} THEN 0 ELSE Max(L)
LastLine(c) == LET L == {k \in LoadedIdx : c \in LoadedType(k).line} IN IF L = {} THEN 0 ELSE Max(L)

\* C8: after a load of m1..mn, text_module(c) and line_module(c) are the last
\* loaded module that lists c among its text (line) commands, and none when no
\* loaded module lists c.
C8_LastWins ==
    ld_pc = "done" =>
        /\ ld_i = Len(ld_paths)
        /\ \A c \in Cmds :
            /\ text_module(c) = LastText(c)
            /\ line_module(c) = LastLine(c)
        /\ text_module("c0") = 0 /\ line_module("c0") = 0

\* two different modules list the same text command and the load has completed
C8_Witness ==
    /\ ld_pc = "done"
    /\ ld_paths = <<"b", "a">>
    /\ "c1" \in LoadedType(1).text /\ "c1" \in LoadedType(2).text
    /\ "c1" \in LoadedType(1).line /\ "c1" \notin LoadedType(2).line
    /\ text_module("c1") = 2 /\ line_module("c1") = 1

\* the elements of S as a sequence, in increasing order
RECURSIVE SeqOfSet(_)
SeqOfSet(S) == IF S = {} THEN <<>> ELSE LET m == Max(S) IN Append(SeqOfSet(S \ {m}), m)
\* the modules the Runtime holds, by load index
HeldModules == {k \in LoadedIdx : modules[ld_paths[k]] = k}

\* C9: after a successful load, action_modules() yields exactly the loaded
\* modules with action = true, each once and in load order, and game_modules()
\* those with game = true; every name the Runtime holds is a key of modules.
C9_ModuleLists ==
    ld_pc = "done" =>
        /\ action_modules_iter = SeqOfSet({k \in HeldModules : LoadedType(k).action})
        /\ game_modules_iter = SeqOfSet({k \in HeldModules : LoadedType(k).game})
        /\ \A k \in 1..Len(action_modules) : module(action_modules[k]) # 0
        /\ \A k \in 1..Len(game_modules) : module(game_modules[k]) # 0
        /\ \A c \in Cmds :
            /\ text_modules[c] # NoModule => module(text_modules[c]) # 0
            /\ line_modules[c] # NoModule => module(line_modules[c]) # 0

\* the module files of the directory
WasmStems == {ld_dir[k].stem : k \in {j \in 1..Len(ld_dir) : IsWasmFile(ld_dir[j])}}

\* C10: with an empty name list the modules to load are exactly the regular
\* .wasm files of the directory, in lexical order of their file names.
C10_LexicalOrder ==
    (ld_names = <<>> /\ ld_pc \in {"loop", "body", "done"}) =>
        /\ {ld_paths[k] : k \in 1..Len(ld_paths)} = WasmStems
        /\ Len(ld_paths) = Cardinality(WasmStems)
        /\ \A j, k \in 1..Len(ld_paths) : j < k => NameRank(ld_paths[j]) < NameRank(ld_paths[k])

\* ======================================================================
\* Claims: host-to-module calls
\* ======================================================================
Buffers == {"arg", "res"}

\* C6: when a host-to-module call has ended, on whatever path, each buffer a
\* successful __abi_alloc returned and each result buffer a successful export
\* returned has been passed to __abi_free exactly once; no buffer is ever
\* passed to it twice, and none that does not exist.
C6_FreedOnce ==
    \A c \in Calls : \A b \in Buffers :
        /\ cl_freed[c][b] <= 1
        /\ cl_freed[c][b] = 1 => cl_alloc[c][b]
        /\ (cl_ret[c] # "none" /\ cl_alloc[c][b]) => cl_freed[c][b] = 1

\* ======================================================================
\* Claims: the packed 64-bit return value
\* ======================================================================
\* C7: the 64-bit value carries the length in its high 32 bits and the pointer
\* in its low 32 bits, and what the receiver unpacks is the pair that was
\* packed, for every pair of 32-bit values, a pointer with bit 31 set
\* included: on an export's result unpacked by the host, and on a wrapped
\* import's result packed by the host.
C7_PackRoundTrip ==
    /\ pk_word # NoWord => pk_word = <<pk_len, pk_ptr>>
    /\ pk_pc = "done" => pk_out = <<pk_len, pk_ptr>>

\* ======================================================================
\* Claims: Runtime::load with a name list, and its status sequence
\* ======================================================================
\* the names of the list whose file <dir>/<name>.wasm is in the directory
HasWasm(n) == \E k \in 1..Len(ld_dir) : ld_dir[k].stem = n /\ ld_dir[k].ext = "wasm"
ExistingNames == SelectSeq(ld_names, HasWasm)
PathsKnown == ld_pc \in {"loop", "body", "done"} \/ (ld_pc = "err" /\ ld_err \in {"read", "module", "plugin_type"})
PluginStatuses == SelectSeq(ld_status, LAMBDA st : st.t = "LoadPlugin")

\* C11: with a non-empty name list the modules to load are the names whose
\* .wasm file exists, in the order given; a missing file is skipped and is never
\* what makes the load fail; every LoadPlugin reports the number of existing
\* files as its total; the modules loaded so far are the first of these names.
C11_ExplicitNames ==
    (ld_names # <<>> /\ PathsKnown) =>
        /\ ld_paths = ExistingNames
        /\ \A k \in 1..Len(PluginStatuses) :
              /\ PluginStatuses[k].total = Len(ExistingNames)
              /\ PluginStatuses[k].name = ExistingNames[k]
        /\ ld_pc = "err" => HasWasm(ld_paths[ld_i + 1])
        /\ ld_pc = "done" => ld_i = Len(ExistingNames)
        /\ \A n \in Stems : modules[n] # 0 => HasWasm(n) /\ ld_paths[modules[n]] = n

C11_Witness ==
    /\ ld_pc = "done"
    /\ Len(ld_names) = 2
    /\ Len(ExistingNames) = 1
    /\ ~HasWasm(ld_names[1])
    /\ Len(PluginStatuses) = 1

Ran == sc_last.kind # "none"
\* the last evaluation was the k-th of the fixed programs
RanFixed(k) == sc_last.kind = "program" /\ sc_last.what.k = "fixed" /\ sc_last.what.i = k
\* what the last evaluation did
Assigned(scope, n) ==
    \E k \in 1..Len(sc_last.log) :
        sc_last.log[k].e = "assign" /\ sc_last.log[k].what = <<scope, n>>
CountOf(kind) == Cardinality({k \in 1..Len(sc_last.log) : sc_last.log[k].e = kind})
SameValue(x, y) == x.t = y.t /\ x.v = y.v

\* C13: a Program starts on an empty temp scope and returns the value of its
\* last expression, Unit when it is empty: after it the temp scope holds only
\* what this program assigned, whatever the program before it left there; temp
\* assignments do not reach the record locals. `a = 0; a += 1; a += a; a` is
\* Num(2) and a following `a` is Unit.
C13_TempScope ==
    (sc_last.kind = "program" /\ sc_out = "ok") =>
        /\ \A n \in VarNames : sc_vars[n] # NoValue => Assigned("Var", n)
        /\ RanFixed(1) => SameValue(sc_last.val, Num(2)) /\ sc_locals = sc_last.locals0
        /\ RanFixed(2) => SameValue(sc_last.val, Unit) /\ sc_vars = EmptyMap
        /\ RanFixed(5) => SameValue(sc_last.val, Unit) /\ sc_vars = EmptyMap

\* `a` evaluated right after the program that left a = Num(2) in the temp scope
C13_Witness ==
    /\ RanFixed(2)
    /\ SameValue(sc_last.vars0["a"], Num(2))
    /\ SameValue(sc_last.val, Unit)

\* C14: a record local keeps its value over every later evaluation until it is
\* assigned again, and `$x` and the temp `x` are independent.
\* `$a = 0; $a += 1; $a += a; $a` is Num(1) and a following `$a` is Num(1).
C14_RecordLocals ==
    (sc_last.kind = "program" /\ sc_out = "ok") =>
        /\ \A n \in VarNames : ~Assigned("Ctx", n) => sc_locals[n] = sc_last.locals0[n]
        /\ \A n \in VarNames : ~Assigned("Var", n) => sc_vars[n] = NoValue
        /\ RanFixed(3) =>
              /\ SameValue(sc_last.val, Num(1))
              /\ SameValue(sc_locals["a"], Num(1))
              /\ sc_vars["a"] = NoValue
        /\ RanFixed(4) =>
              /\ sc_locals = sc_last.locals0
              /\ sc_last.locals0["a"] # NoValue => sc_last.val = sc_last.locals0["a"]

\* `$a` evaluated after the program that left $a = Num(1)
C14_Witness ==
    /\ RanFixed(4)
    /\ SameValue(sc_last.locals0["a"], Num(1))
    /\ SameValue(sc_last.val, Num(1))
    /\ SameValue(sc_locals["a"], Num(1))

\* C15: an evaluation changes the record locals only at the keys `$x` it
\* assigned; no key is removed; reading a missing variable is Unit and creates
\* it in neither scope; a Text changes neither scope.
C15_Frame ==
    Ran =>
        /\ \A n \in VarNames :
              /\ sc_locals[n] # sc_last.locals0[n] => Assigned("Ctx", n)
              /\ sc_last.locals0[n] # NoValue => sc_locals[n] # NoValue
        /\ sc_last.kind = "text" => sc_locals = sc_last.locals0 /\ sc_vars = sc_last.vars0
        /\ RanFixed(2) => sc_vars["a"] = NoValue /\ sc_locals = sc_last.locals0
        /\ (RanFixed(4) /\ sc_last.locals0["a"] = NoValue) =>
              /\ SameValue(sc_last.val, Unit)
              /\ sc_locals["a"] = NoValue /\ sc_vars["a"] = NoValue

\* `$a` read while the record has no `a`, `b` being set
C15_Witness ==
    /\ RanFixed(4)
    /\ sc_last.locals0["a"] = NoValue
    /\ sc_last.locals0["b"] # NoValue
    /\ sc_locals = sc_last.locals0

\* the record local as the value a read of it gives
ReadOf(map, n) == IF map[n] = NoValue THEN Unit ELSE map[n]

\* C16: `if(cond, then, else)` evaluates cond once and then one branch, `then`
\* exactly when cond is true; the effects of the other branch do not happen;
\* its value is the value of that branch, Unit when the branch is absent.
\* `if(1 + 1 + 4 + 5 + 1 + 4 == 16, "sodayo", ~)` is Str("sodayo") and
\* `if(1 + 1 == 3, "x")` is Unit.
C16_If ==
    (sc_last.kind = "program" /\ sc_out = "ok") =>
        /\ RanFixed(6) => SameValue(sc_last.val, Str(Sodayo))
        /\ RanFixed(7) => SameValue(sc_last.val, Unit)
        /\ RanFixed(8) => SameValue(sc_last.val, Str(Sodayo))
        /\ RanFixed(9) =>
              /\ CountOf("call") = 1
              /\ CountOf("assign") = 1
              /\ SameValue(sc_last.val, Unit)
              /\ IF sc_last.o.out = "ok" /\ sc_last.o.r % 2 # 0
                 THEN SameValue(sc_locals["b"], Num(1))
                 ELSE SameValue(sc_locals["b"], Num(2))
        /\ RanFixed(10) =>
              IF get_bool(ReadOf(sc_last.locals0, "b"))
              THEN /\ CountOf("call") = 1
                   /\ CountOf("assign") = 0
                   /\ sc_vars["b"] = NoValue
                   /\ SameValue(sc_last.val, Unit)
              ELSE /\ CountOf("call") = 0
                   /\ CountOf("assign") = 1
                   /\ SameValue(sc_last.val, Num(1))

\* `if(random.rnd(2), $b = 1, $b = 2)` took its first branch and only it
C16_Witness ==
    /\ RanFixed(9)
    /\ sc_last.o.out = "ok"
    /\ sc_last.o.r = 1
    /\ ~SameValue(ReadOf(sc_last.locals0, "b"), Num(1))
    /\ SameValue(sc_locals["b"], Num(1))
    /\ CountOf("assign") = 1

\* C17: a call `ns.name(args)` evaluates to Unit and the program goes on, the
\* record locals changed by its arguments only, when ns is not loaded, when the
\* module has no export `name`, when the export traps, and when its result does
\* not deserialize.
C17_PluginCallUnit ==
    \A k \in 15..18 :
        (RanFixed(k) /\ (k = 18 => sc_last.o.out # "ok")) =>
            /\ sc_out = "ok"
            /\ sc_vars["b"] # NoValue /\ SameValue(sc_vars["b"], Unit)
            /\ sc_locals["a"] # NoValue /\ SameValue(sc_locals["a"], Num(7))
            /\ IF k \in {16, 17}
               THEN SameValue(sc_locals["b"], Num(3))
               ELSE sc_locals["b"] = sc_last.locals0["b"]

ChunkText(c, locals) ==
    IF c.k = "Str" THEN c.s
    ELSE IF c.k = "Ctx" THEN get_str(ReadOf(locals, c.s[1]))
    ELSE <<>>
RECURSIVE Concatenated(_, _)
Concatenated(text, locals) ==
    IF text = <<>> THEN <<>>
    ELSE ChunkText(Head(text), locals) \o Concatenated(Tail(text), locals)
\* str is whole without the whitespace at its two ends
TrimmedOf(str, whole) ==
    /\ str # <<>> => ~IsSpace(str[1]) /\ ~IsSpace(str[Len(str)])
    /\ \E i, j \in 0..Len(whole) :
          /\ i + j <= Len(whole)
          /\ str = SubSeq(whole, i + 1, Len(whole) - j)
          /\ \A k \in 1..i : IsSpace(whole[k])
          /\ \A k \in (Len(whole) - j + 1)..Len(whole) : IsSpace(whole[k])

\* C19: a Text evaluates to a Str without whitespace at its ends: the Str
\* chunks and the stringified record local of every Ctx chunk (nothing for a
\* missing local, nothing for Character, Res and Other) concatenated in order,
\* then trimmed once.
C19_TextTrimmed ==
    sc_last.kind = "text" =>
        /\ sc_out = "ok"
        /\ sc_last.val.t = "Str"
        /\ TrimmedOf(sc_last.val.v, Concatenated(sc_last.what, sc_last.locals0))

\* ` y ` and the local `$b` = ` z`: the whitespace between the chunks stays
C19_Witness ==
    /\ sc_last.kind = "text"
    /\ sc_last.what = <<SubStr(<<" ", "y", " ">>), CmdCtx("b")>>
    /\ sc_last.locals0["b"] # NoValue /\ SameValue(sc_last.locals0["b"], Str(<<" ", "z">>))
    /\ sc_last.val.v = <<"y", " ", " ", "z">>

\* the operands and the operator of the evaluated `a = l op r; $b = 1`
OpLhs == ConstSamples[sc_last.what.l]
OpRhs == ConstSamples[sc_last.what.r]
RanOp(ops) == sc_last.kind = "program" /\ sc_last.what.k = "bin" /\ sc_last.what.op \in ops

\* C20: when the operands promote to Str and the operator is none of + and *,
\* or is * on two Str, the operator evaluates to Unit with a logged warning and
\* the rest of the program is evaluated.
C20_StrOperatorUnit ==
    (/\ RanOp(ValOps)
     /\ MaxType(OpLhs.t, OpRhs.t) = "Str"
     /\ \/ sc_last.what.op \notin {"Add", "Mul"}
        \/ sc_last.what.op = "Mul" /\ OpLhs.t = "Str" /\ OpRhs.t = "Str") =>
        /\ sc_out = "ok"
        /\ sc_vars["a"] # NoValue /\ SameValue(sc_vars["a"], Unit)
        /\ CountOf("warn") >= 1
        /\ sc_locals["b"] # NoValue /\ SameValue(sc_locals["b"], Num(1))

\* the evaluated operator expression is one bin_str_val leaves unimplemented
UnimplementedOnStr ==
    /\ RanOp(ValOps)
    /\ MaxType(OpLhs.t, OpRhs.t) = "Str"
    /\ \/ sc_last.what.op \notin {"Add", "Mul"}
       \/ OpLhs.t = "Str" /\ OpRhs.t = "Str"
RanUnary == sc_last.kind = "program" /\ sc_last.what.k = "un"
IsRawValue(x) == x.t \in {"Unit", "Bool", "Num", "Str"}

\* C21: every unary and every value-binary operator is total: for all operands
\* the evaluation returns a RawValue and does not abort, also for `/` and `%`
\* by an operand that coerces to 0 and for `Str * n` with a negative n.
\* (The operators bin_str_val leaves unimplemented are C20's.)
C21_OperatorsTotal ==
    ((RanOp(ValOps) \/ RanUnary) /\ ~UnimplementedOnStr) =>
        /\ sc_out = "ok"
        /\ IsRawValue(sc_vars["a"])
        /\ sc_locals["b"] # NoValue /\ SameValue(sc_locals["b"], Num(1))

RanCmp(ops) == sc_last.kind = "program" /\ sc_last.what.k = "cmp" /\ sc_last.what.op \in ops

\* C22: a comparison promotes both operands to the larger of their types and
\* compares there; on two Units `==` is Bool(true), `!=` is Bool(false) and
\* each of `< <= > >=` is Bool(false); `==` and `!=` are opposite on every pair.
C22_Comparisons ==
    RanCmp(OrdOps) =>
        /\ sc_out = "ok"
        /\ sc_vars["a"].t = "Bool" /\ sc_vars["b"].t = "Bool"
        /\ MaxType(OpLhs.t, OpRhs.t) # "Unit" =>
              sc_vars["a"].v = bin_ord_logic(Cmp(MaxType(OpLhs.t, OpRhs.t), OpLhs, OpRhs), sc_last.what.op)
        /\ MaxType(OpLhs.t, OpRhs.t) = "Unit" =>
              sc_vars["a"].v = (sc_last.what.op = "Eq")
        /\ sc_last.what.op = "Eq" => sc_vars["a"].v # sc_vars["b"].v

\* the integer operation has a value
IntDefined(op, y) == ~(op \in {"Div", "Mod"} /\ y = 0)
ZeroOne(x) == IF get_bool(x) THEN 1 ELSE 0
Arithmetic == {"Add", "Minus", "Mul", "Div", "Mod"}
RanPair(op, l, r) == RanOp({op}) /\ SameValue(OpLhs, l) /\ SameValue(OpRhs, r)
ResultIs(x) == sc_out = "ok" /\ SameValue(sc_vars["a"], x)

\* C30: the result of a value-binary operation follows the larger operand
\* type t under Unit < Bool < Num < Str. t = Unit: Unit. t = Bool: a Bool for
\* And/Or/Xor, and for + - * / % the Num of the integer operation on the
\* operands as 0/1. t = Num: the Num of the integer operation on the operands
\* coerced to numbers. t = Str: `+` concatenates the stringified operands and
\* `*` with a non-Str side n >= 0 repeats the string n times, on either side.
\* (Where the integer operation has a value.)
C30_ResultByType ==
    RanOp(ValOps) =>
        LET t == MaxType(OpLhs.t, OpRhs.t)
            op == sc_last.what.op
        IN  /\ t = "Unit" => ResultIs(Unit)
            /\ (t = "Bool" /\ op = "And") => ResultIs(Bool(get_bool(OpLhs) /\ get_bool(OpRhs)))
            /\ (t = "Bool" /\ op = "Or") => ResultIs(Bool(get_bool(OpLhs) \/ get_bool(OpRhs)))
            /\ (t = "Bool" /\ op = "Xor") => ResultIs(Bool(get_bool(OpLhs) # get_bool(OpRhs)))
            /\ (t = "Bool" /\ op \in Arithmetic /\ IntDefined(op, ZeroOne(OpRhs))) =>
                  ResultIs(Num(bin_num_val(ZeroOne(OpLhs), op, ZeroOne(OpRhs))))
            /\ (t = "Num" /\ IntDefined(op, get_num(OpRhs))) =>
                  ResultIs(Num(bin_num_val(get_num(OpLhs), op, get_num(OpRhs))))
            /\ (t = "Str" /\ op = "Add") => ResultIs(Str(get_str(OpLhs) \o get_str(OpRhs)))
            /\ (t = "Str" /\ op = "Mul" /\ OpRhs.t # "Str" /\ get_num(OpRhs) >= 0) =>
                  ResultIs(Str(Repeat(OpLhs.v, get_num(OpRhs))))
            /\ (t = "Str" /\ op = "Mul" /\ OpLhs.t # "Str" /\ get_num(OpLhs) >= 0) =>
                  ResultIs(Str(Repeat(OpRhs.v, get_num(OpLhs))))
            /\ RanPair("Add", Bool(TRUE), Bool(TRUE)) => ResultIs(Num(2))
            /\ RanPair("Minus", Num(2), Num(-1)) => ResultIs(Num(3))
            /\ RanPair("Div", Num(-1), Num(2)) => ResultIs(Num(0))
            /\ RanPair("Mod", Num(-1), Num(2)) => ResultIs(Num(-1))
            /\ RanPair("And", Num(2), Num(-1)) => ResultIs(Num(2))
            /\ RanPair("Xor", Num(2), Num(-1)) => ResultIs(Num(-3))
            /\ RanPair("Or", Unit, Bool(TRUE)) => ResultIs(Bool(TRUE))
            /\ RanPair("Add", Str(<<"x">>), Num(2)) => ResultIs(Str(<<"x", "2">>))
            /\ RanPair("Add", Num(-1), Str(<<"x">>)) => ResultIs(Str(<<"-", "1", "x">>))
            /\ RanPair("Add", Unit, Str(<<"x">>)) => ResultIs(Str(<<"x">>))
            /\ RanPair("Mul", Str(<<"x">>), Num(2)) => ResultIs(Str(<<"x", "x">>))
            /\ RanPair("Mul", Bool(TRUE), Str(<<"x">>)) => ResultIs(Str(<<"x">>))

\* `2 * "x"` is "xx": the string repeated, with the number on the left
C30_Witness ==
    /\ RanPair("Mul", Num(2), Str(<<"x">>))
    /\ ResultIs(Str(<<"x", "x">>))

\* ======================================================================
\* Claims: the locale resolver
\* ======================================================================
Looked == lc_out.fn # "none"
\* the map the lookup went through, and the entry it holds under a key
LookedMap == IF lc_out.fn = "para" THEN lc_game.paras ELSE lc_game.res
Found(key) ==
    IF key \notin DOMAIN LookedMap THEN NoEntry
    ELSE IF lc_out.fn = "res" THEN Entry(key, "")
    ELSE IF lc_out.tag \in lc_game.paras[key] THEN Entry(key, lc_out.tag)
    ELSE NoEntry
\* the key chosen for the base locale
BaseKey ==
    IF choose_from(lc_game.base_lang, DOMAIN LookedMap) = NoLocale THEN lc_game.base_lang
    ELSE choose_from(lc_game.base_lang, DOMAIN LookedMap)

\* C23: for every target locale, base locale and set of keys, the chosen key
\* is the best match among the keys, or the base locale when nothing matches;
\* find_para_fallback and find_res_fallback return primary = None when the
\* chosen key is the base key and the entry under the chosen key otherwise;
\* fallback is the entry under the base key; primary and fallback never come
\* from the same key.
C23_Fallback ==
    Looked =>
        LET keys == DOMAIN LookedMap
            key == lc_out.key
        IN  /\ key \in keys \/ key = lc_game.base_lang
            /\ lc_loc \in keys => key = lc_loc
            /\ key # lc_game.base_lang => Lang(key) = Lang(lc_loc)
            /\ (\A k \in keys : Lang(k) # Lang(lc_loc)) => key = lc_game.base_lang
            /\ (\E k \in keys : Lang(k) = Lang(lc_loc)) => key \in keys
            /\ key = BaseKey => lc_out.res.primary = NoEntry
            /\ key # BaseKey => lc_out.res.primary = Found(key)
            /\ lc_out.res.fallback = Found(BaseKey)
            /\ (lc_out.res.primary # NoEntry /\ lc_out.res.fallback # NoEntry) =>
                  lc_out.res.primary.key # lc_out.res.fallback.key

\* `ja` on a game with base `en` and paragraphs `a` under both: both found
C23_Witness ==
    /\ Looked
    /\ lc_out.fn = "para"
    /\ lc_loc = "ja" /\ lc_game.base_lang = "en-US"
    /\ lc_out.res.primary = Entry("ja", "a")
    /\ lc_out.res.fallback = Entry("en", "a")

\* ======================================================================
\* Claims: the commands, one after the other
\* ======================================================================
\* the front-end's command c has returned
Done(c) == pl_cur.cmd = c /\ vm_cmd[1] = "idle"
\* the storage is as it was when the command was invoked
StorageAsInvoked == context = pl_cur.ctx /\ records = pl_cur.recs /\ action = pl_cur.act
\* switch(i) has nothing to evaluate
NoSwitch ==
    \/ ~pl_cur.ctx.some
    \/ pl_cur.act = NoAction
    \/ pl_cur.arg >= NSwitches(pl_cur.act)

\* C24: switch(i) returns an error and leaves the engine record and the current
\* action unchanged when no engine is loaded, when there is no current action,
\* and when i is not less than the number of switches of the current action;
\* otherwise it evaluates the i-th switch's program on the record and returns
\* its value.
C24_Switch ==
    Done("switch") =>
        IF NoSwitch
        THEN vm_ret[1] = "err" /\ StorageAsInvoked
        ELSE /\ vm_ret[1] = "value"
             /\ context = [pl_cur.ctx EXCEPT !.calls = 1]
             /\ records = pl_cur.recs /\ action = pl_cur.act

\* switch(1) on a current action with one switch: an index error
C24_Witness ==
    /\ Done("switch")
    /\ pl_cur.ctx.some /\ pl_cur.act = 1 /\ pl_cur.arg = 1
    /\ vm_ret[1] = "err"
    /\ StorageAsInvoked

\* C25: start_record(locale, index) with an engine loaded and index not less
\* than the number of records returns a structured error to the caller and
\* leaves the engine record and the current action unchanged.
C25_StartRecordError ==
    (Done("start_record") /\ pl_cur.ctx.some /\ pl_cur.arg >= Len(pl_cur.recs)) =>
        vm_ret[1] = "err" /\ StorageAsInvoked

\* C26: when next_run returned an action A, a next_back_run right after it
\* returns A again, both commands return true, the current action is A, and
\* the position and the history of the record are as before the next_run.
C26_RunThenBack ==
    (Done("next_back_run") /\ pl_prev.cmd = "next_run" /\ pl_prev.ret = "true") =>
        /\ vm_ret[1] = "true"
        /\ pl_prev.tmp # NoAction
        /\ vm_tmp[1] = pl_prev.tmp
        /\ action = pl_prev.tmp
        /\ context = pl_prev.ctx
        /\ records = pl_prev.recs

\* the second action of the game, produced and taken back
C26_Witness ==
    /\ Done("next_back_run")
    /\ pl_prev.cmd = "next_run" /\ pl_prev.ret = "true"
    /\ pl_prev.ctx.hist = 1
    /\ vm_tmp[1] = 2 /\ action = 2
    /\ context.hist = 1

\* C27: history returns the history of the record, the most recent action
\* first, and the empty list when no engine is loaded; it changes nothing.
C27_History ==
    Done("history") =>
        /\ vm_ret[1] = "ok"
        /\ StorageAsInvoked
        /\ Len(vm_hs[1]) = (IF pl_cur.ctx.some THEN pl_cur.ctx.hist ELSE 0)
        /\ \A k \in 1..Len(vm_hs[1]) : vm_hs[1][k] = pl_cur.ctx.hist + 1 - k

\* two actions produced, then history: the second one first
C27_Witness ==
    /\ Done("history")
    /\ vm_hs[1] = <<2, 1>>
    /\ context.hist = 2

\* ======================================================================
\* Claims: the steps of a host-to-module call
\* ======================================================================
\* the call is between its __abi_alloc and its last __abi_free
InCall(c) == cl_trace[c] # <<>> /\ cl_pc[c] # "returned"
\* the place of a step in the call's trace, 0 when it was not made
Pos(c, op) ==
    IF \E k \in 1..Len(cl_trace[c]) : cl_trace[c][k] = op
    THEN CHOOSE k \in 1..Len(cl_trace[c]) : cl_trace[c][k] = op
    ELSE 0
Before(c, op1, op2) == Pos(c, op2) # 0 => (Pos(c, op1) # 0 /\ Pos(c, op1) < Pos(c, op2))

\* C28: a call has the store to itself for its whole duration: two calls on
\* the same store are never both between their __abi_alloc and their last
\* __abi_free.
C28_StoreExclusive ==
    \A c, d \in Calls : (c # d /\ InCall(c)) => ~InCall(d)

RanLogic == sc_last.kind = "program" /\ sc_last.what.k = "logic"
\* the left operand decides the result
Skips ==
    \/ sc_last.what.op = "And" /\ ~get_bool(OpLhs)
    \/ sc_last.what.op = "Or" /\ get_bool(OpLhs)
Event(e, what) == [e |-> e, what |-> what]
\* what the right operand does when it is evaluated, and its truth value
RhsEvent ==
    CASE sc_last.what.r = 1 -> Event("assign", <<"Ctx", "b">>)
      [] sc_last.what.r = 2 -> Event("assign", <<"Var", "b">>)
      [] sc_last.what.r = 3 -> Event("call", <<"random", "rnd">>)
RhsTruth == sc_last.what.r = 3

\* C31: And and Or short-circuit: the left operand is evaluated once and
\* first; the right operand is evaluated after it, once, unless the left
\* operand coerces to false under And or to true under Or, and then none of
\* its effects (record assignment, temp assignment, plugin call) happens; the
\* result is a Bool.
C31_ShortCircuit ==
    RanLogic =>
        /\ sc_out = "ok"
        /\ sc_last.log =
              IF Skips
              THEN <<Event("assign", <<"Ctx", "a">>), Event("assign", <<"Var", "a">>)>>
              ELSE <<Event("assign", <<"Ctx", "a">>), RhsEvent, Event("assign", <<"Var", "a">>)>>
        /\ Skips => sc_locals["b"] = sc_last.locals0["b"] /\ sc_vars["b"] = NoValue
        /\ sc_vars["a"].t = "Bool"
        /\ sc_vars["a"].v =
              IF sc_last.what.op = "And" THEN get_bool(OpLhs) /\ RhsTruth
              ELSE get_bool(OpLhs) \/ RhsTruth

\* `a = if($a = 1, ~, false) && ($b = 2)`: $b is not assigned
C31_Witness ==
    /\ RanLogic /\ sc_last.what.op = "And" /\ sc_last.what.r = 1
    /\ ~get_bool(OpLhs)
    /\ Len(sc_last.log) = 2
    /\ SameValue(sc_vars["a"], Bool(FALSE))

RanAsg == sc_last.kind = "program" /\ sc_last.what.k = "asg"
AsgScope == Scopes[sc_last.what.i]
\* `l op r` (or r alone, for the plain assignment) evaluated on the state
\* before the statement
AsgExpected ==
    Program_call([locals |-> sc_last.locals0, vars |-> EmptyMap, log |-> <<>>, out |-> "ok",
                  val |-> Unit],
                 <<IF sc_last.what.op = "" THEN Const(OpRhs)
                   ELSE BinVal(Const(OpLhs), sc_last.what.op, Const(OpRhs))>>, NoOracle)

\* C32: Assign and Inplace evaluate to Unit whatever the assigned value; after
\* `x = l; x op= r` the variable x of the scope of its Ref holds the value of
\* `l op r`, after `x = l; x = r` it holds r, and the other scope is as it
\* was. (The statement ends where `l op r` has a value.)
C32_AssignInplace ==
    RanAsg =>
        /\ sc_out = AsgExpected.out
        /\ sc_out = "ok" =>
              /\ SameValue(sc_last.val, Unit)
              /\ AsgScope = "Var" =>
                    /\ SameValue(sc_vars["a"], AsgExpected.val)
                    /\ sc_vars["b"] = NoValue
                    /\ sc_locals = sc_last.locals0
              /\ AsgScope = "Ctx" =>
                    /\ SameValue(sc_locals["a"], AsgExpected.val)
                    /\ sc_locals["b"] = sc_last.locals0["b"]
                    /\ sc_vars = EmptyMap

\* `$a = 2; $a += -1` leaves $a = 1 and evaluates to Unit
C32_Witness ==
    /\ RanAsg /\ AsgScope = "Ctx" /\ sc_last.what.op = "Add"
    /\ SameValue(OpLhs, Num(2)) /\ SameValue(OpRhs, Num(-1))
    /\ SameValue(sc_locals["a"], Num(1))
    /\ SameValue(sc_last.val, Unit)

\* ======================================================================
\* Claims: the commands and the storage
\* ======================================================================
\* what the engine answers to the command, on the record it had at the invoke
EngineNext == IF pl_cur.ctx.some THEN CtxNextRun(pl_cur.ctx).res ELSE NoAction
EngineBack == IF pl_cur.ctx.some THEN CtxNextBackRun(pl_cur.ctx).res ELSE NoAction

\* C33: next_run returns true exactly when an engine is loaded and its
\* next_run produced an action, which is then the current action; otherwise it
\* returns false and the current action is none. next_back_run returns true
\* exactly when the engine returned a previous action, which is then the
\* current action; when it returns false the current action is unchanged.
C33_RunResults ==
    /\ Done("next_run") =>
          /\ vm_ret[1] = (IF EngineNext # NoAction THEN "true" ELSE "false")
          /\ action = EngineNext
    /\ Done("next_back_run") =>
          /\ vm_ret[1] = (IF EngineBack # NoAction THEN "true" ELSE "false")
          /\ action = (IF EngineBack # NoAction THEN EngineBack ELSE pl_cur.act)

\* next_run at the end of the game: false, and the current action is cleared
C33_Witness ==
    /\ Done("next_run")
    /\ pl_cur.ctx.some /\ pl_cur.ctx.hist = GameLen /\ pl_cur.act # NoAction
    /\ vm_ret[1] = "false"
    /\ action = NoAction

\* next_back_run on an empty history: false, and the current action is kept
C33_WitnessBack ==
    /\ Done("next_back_run")
    /\ pl_cur.ctx.some /\ pl_cur.ctx.hist = 0 /\ pl_cur.act # NoAction
    /\ vm_ret[1] = "false"
    /\ action = pl_cur.act

\* the slot the save_record_to before this command wrote
SavedSlot == IF pl_prev.arg >= Len(pl_prev.recs) THEN Len(pl_prev.recs) ELSE pl_prev.arg
\* the command follows a save_record_to that wrote the slot it names
OnSavedSlot ==
    /\ pl_prev.cmd = "save_record_to" /\ pl_prev.ctx.some
    /\ pl_cur.arg = SavedSlot

\* C34: start_record(locale, i) on a slot i written by save_record_to
\* succeeds, sets the engine record to the saved record and the current
\* action to the last history entry of the saved record, also for a record
\* saved right after start_new, whose history is empty.
C34_StartSaved ==
    (Done("start_record") /\ OnSavedSlot) =>
        /\ vm_ret[1] = "ok"
        /\ context = CtxInitContext(pl_cur.ctx, pl_cur.recs[pl_cur.arg + 1])
        /\ action = (IF pl_cur.recs[pl_cur.arg + 1] = 0 THEN NoAction
                     ELSE pl_cur.recs[pl_cur.arg + 1])
        /\ records = pl_cur.recs

\* C35: save_record_to(index) with an engine loaded stores a copy of the
\* engine's record: it replaces slot index when index is less than the number
\* of slots, leaving the other slots and the count as they were, and appends
\* one slot otherwise, whatever the index. With no engine loaded the records
\* are unchanged. The number of slots does not decrease and the engine record
\* is not modified.
C35_SaveRecordTo ==
    Done("save_record_to") =>
        /\ vm_ret[1] = "ok"
        /\ context = pl_cur.ctx /\ action = pl_cur.act
        /\ Len(records) >= Len(pl_cur.recs)
        /\ ~pl_cur.ctx.some => records = pl_cur.recs
        /\ (pl_cur.ctx.some /\ pl_cur.arg < Len(pl_cur.recs)) =>
              /\ Len(records) = Len(pl_cur.recs)
              /\ records[pl_cur.arg + 1] = pl_cur.ctx.hist
              /\ \A k \in 1..Len(records) : k # pl_cur.arg + 1 => records[k] = pl_cur.recs[k]
        /\ (pl_cur.ctx.some /\ pl_cur.arg >= Len(pl_cur.recs)) =>
              records = Append(pl_cur.recs, pl_cur.ctx.hist)

\* save_record_to(1) on no records: one slot is appended, at place 0
C35_Witness ==
    /\ Done("save_record_to")
    /\ pl_cur.ctx.some /\ pl_cur.arg = 1 /\ pl_cur.recs = <<>>
    /\ Len(records) = 1

\* save_record_to(0) on two slots: the first is replaced, the second kept
C35_WitnessReplace ==
    /\ Done("save_record_to")
    /\ pl_cur.ctx.some /\ pl_cur.arg = 0 /\ Len(pl_cur.recs) = 2
    /\ Len(records) = 2 /\ records[2] = pl_cur.recs[2]

AllSaves == <<"settings", "global", "records">>
Failed(p) == \E k \in 1..Len(vm_io[p]) : ~vm_io[p][k].ok

\* C36: save_all with an engine loaded saves the settings, then the global
\* record, then the save records; the first save that fails is returned as an
\* error and the saves after it are not attempted; with no engine loaded it
\* saves nothing and returns success. It changes nothing of the settings, the
\* global record, the records and the current action held in memory.
C36_SaveAll ==
    pl_cur.cmd = "save_all" =>
        /\ StorageAsInvoked
        /\ Len(vm_io[1]) <= Len(AllSaves)
        /\ \A k \in 1..Len(vm_io[1]) :
              /\ vm_io[1][k].what = AllSaves[k]
              /\ k < Len(vm_io[1]) => vm_io[1][k].ok
        /\ Done("save_all") =>
              /\ ~pl_cur.ctx.some => vm_ret[1] = "ok" /\ vm_io[1] = <<>>
              /\ vm_ret[1] = (IF Failed(1) THEN "err" ELSE "ok")
              /\ (pl_cur.ctx.some /\ ~Failed(1)) => Len(vm_io[1]) = Len(AllSaves)

\* the global record could not be saved: an error, and the records were not saved
C36_Witness ==
    /\ Done("save_all")
    /\ vm_ret[1] = "err"
    /\ Len(vm_io[1]) = 2 /\ vm_io[1][1].ok /\ ~vm_io[1][2].ok

\* ======================================================================
\* Claims: the locks of a command
\* ======================================================================
\* C37: in next_run, next_back_run, start_record, save_record_to and save_all
\* a lock the command has taken is held until the command body ends: while
\* the command still runs, every lock it took is still its own.
C37_LocksHeld ==
    \A p \in Procs :
        vm_cmd[p] \in {"next_run", "next_back_run", "start_record", "save_record_to", "save_all"}
            => Took(p) \subseteq Held(p)

\* ======================================================================
\* Claims: a host import
\* ======================================================================
ImportEvents(e) == {k \in 1..Len(im_log) : im_log[k].e = e}
\* the buffers __abi_alloc has returned
Allocated == {k \in ImportEvents("alloc") : im_log[k].ptr # NoPtr}

C38_WitnessTrap ==
    /\ im_pc = "returned" /\ im_backend = "wasmi"
    /\ ~im_arg.decodes
    /\ im_handled = 0
    /\ im_ret = Traps

\* ======================================================================
\* Claims: the outcome of open_game
\* ======================================================================
\* what open_game has put into the storage
Installed(what) == \E k \in 1..Len(og_log) : og_log[k] = what

\* C39: open_game returns success only when the engine has been installed in
\* the storage, and when it returns an error it has neither replaced the save
\* records nor installed the engine, including when the emit of a progress
\* event failed.
C39_OpenOutcome ==
    /\ og_pc = "done" => Installed("engine") /\ context = og_ctx
    /\ og_pc = "failed" =>
          /\ ~Installed("records") /\ ~Installed("engine")
          /\ <<context, records>> = og_old
====
